---------------------------- MODULE Spec2Model ----------------------------
(***************************************************************************)
(* Model of garmin-export: src/export.py (the export pipeline) and         *)
(* src/filtering.py (exclusion file and download ledger).                  *)
(*                                                                         *)
(* Activity IDs are naturals; wherever the code uses str(id) the model     *)
(* uses the decimal digit sequence Str(id), so that the ledger's sort is   *)
(* the lexicographic sort of strings that list.sort() performs.            *)
(*                                                                         *)
(* Argument parsing and logging setup (main, lines 1077-1086) are not      *)
(* modelled; main is modelled from the exclusion file on (line 1088).      *)
(*                                                                         *)
(* Spec is main as it runs: for every item marked download it ends at line *)
(* 1166, where isoformat() of start_time_with_offset raises (FixedOffset   *)
(* has no utcoffset).  SpecBody adds the statements of lines 1173-1206 as  *)
(* they run when that timestamp can be formatted.                          *)
(***************************************************************************)
EXTENDS Naturals, Integers, Sequences, FiniteSets, TLC

VARIABLES
    \* ---- the download ledger downloaded_ids.json (filtering.py) ----
    ledger,       \* content of the ledger file
    led0,         \* content of the ledger file before the first call
    passed,       \* set of IDs passed to update_download_stats so far
    uds_calls,    \* number of update_download_stats calls so far
    uds_last,     \* the ID of the last call (0: none yet)
    uds_raised,   \* TRUE iff the last call raised
    \* ---- annotate_activity_list ----
    an_in,        \* its arguments
    an_out,       \* its result
    an_pc,
    \* ---- fetch_details ----
    fd_resps,     \* what the service answers to the 1st, 2nd, 3rd request
    fd_out,       \* the outcome of the call
    fd_pc,
    \* ---- fetch_multisports ----
    ms_page,      \* the page as fetched
    ms_server,    \* the details the service holds for every activity ID
    ms_out,       \* the outcome of the call
    ms_pc,
    \* ---- the export directory (persists from run to run) ----
    files,        \* the names of the files in it (ledger and CSV apart)
    csv,          \* the lines of activities.csv
    csv_exists,   \* activities.csv exists
    \* ---- one run of main ----
    args,         \* the command line
    pc,           \* the position in main
    status,       \* how the last run ended
    diag,         \* the diagnostic read_exclude printed
    exclude_list,
    action_list,
    item_no,      \* 0-based index of the current item of action_list
    cur,          \* details and extract of the current item
    device_dict,  \* cache of the device names
    hr_zones,     \* the list HR_ZONES_EMPTY: which of its 5 slots are set
    export_result,\* what export_data_file returned, when it was the last step
    requested,    \* the last step has requested the download of a data file
    answered,     \* the answer to that request ("none": no request)
    looked,       \* the lookup request the last step has made, and if it failed
    dir0,         \* the export directory before the first run
    overwrote,    \* the existing files the last step opened for writing
    tried,        \* per ID: calls of export_data_file that got an answer
    pwrites,      \* per ID: times the primary data file was written
    \* ---- fetch_activity_list ----
    fl_total,     \* total_to_download
    fl_downloaded,\* total_downloaded
    fl_requests,  \* the list requests so far: start, limit, summaries returned
    fl_got,       \* len(activities)
    fl_pc,
    \* ---- CsvFilter ----
    cf_template,  \* the lines of the template file
    cf_row,       \* __current_row
    cf_out,       \* the lines written to the CSV file
    cf_last,      \* the last call
    cf_raised,    \* the last call raised
    \* ---- csv_write_record ----
    wr_in,        \* activity, details and extract given to csv_write_record
    wr_out,       \* the outcome of the call
    wr_pc,
    \* ---- extract_device ----
    dv_dict,   \* device_dict
    dv_reqs,   \* per installation ID, the device requests of the run so far
    dv_calls,   \* the calls of extract_device so far
    dv_last,   \* the last call and its outcome
    dv_pc,
    \* ---- load_zones ----
    hz_global,   \* the list HR_ZONES_EMPTY: which of its 5 slots are set
    hz_calls,   \* the calls of load_zones so far
    hz_last,   \* the last call: the zones of the answer and of the list returned
    \* ---- offset_date_time, pace_or_speed_formatted, hhmmss_from_seconds ----
    fmt_in,   \* the formatting function called and its arguments
    fmt_out   \* the outcome of the call

ledgerVars == <<ledger, led0, passed, uds_calls, uds_last, uds_raised>>
annotateVars == <<an_in, an_out, an_pc>>
detailsVars == <<fd_resps, fd_out, fd_pc>>
multiVars == <<ms_page, ms_server, ms_out, ms_pc>>
dirVars == <<files, csv, csv_exists>>
runVars == <<args, pc, status, diag, exclude_list, action_list, item_no, cur,
             device_dict, hr_zones, export_result, requested, answered,
             looked>>
ghostVars == <<dir0, overwrote, tried, pwrites>>
mainVars == <<dirVars, runVars, ghostVars>>
\* the variables of the calls of single functions that are added below
listVars == <<fl_total, fl_downloaded, fl_requests, fl_got, fl_pc>>
filterVars == <<cf_template, cf_row, cf_out, cf_last, cf_raised>>
recordVars == <<wr_in, wr_out, wr_pc>>
deviceVars == <<dv_dict, dv_reqs, dv_calls, dv_last, dv_pc>>
zonesVars == <<hz_global, hz_calls, hz_last>>
formatVars == <<fmt_in, fmt_out>>
unitVars == <<listVars, filterVars, recordVars, deviceVars, zonesVars, formatVars>>
\* for each of them, the variables of the others
listOthers == <<filterVars, recordVars, deviceVars, zonesVars, formatVars>>
filterOthers == <<listVars, recordVars, deviceVars, zonesVars, formatVars>>
recordOthers == <<listVars, filterVars, deviceVars, zonesVars, formatVars>>
deviceOthers == <<listVars, filterVars, recordVars, zonesVars, formatVars>>
zonesOthers == <<listVars, filterVars, recordVars, deviceVars, formatVars>>
formatOthers == <<listVars, filterVars, recordVars, deviceVars, zonesVars>>
vars == <<ledgerVars, annotateVars, detailsVars, multiVars, mainVars, unitVars>>

---------------------------------------------------------------------------
\* Bounds of the model

\* number of distinct activity IDs
NumIds == 4
\* the smallest activity ID; the IDs straddle 10 so that the string order
\* of str(id) differs from the numeric order ("10" < "8")
FirstId == 8
\* number of update_download_stats calls in one behaviour
MaxCalls == 5
\* longest activity list given to annotate_activity_list
MaxLen == 3
\* largest start index given to annotate_activity_list
MaxStart == 4

ActivityIds == FirstId .. (FirstId + NumIds - 1)

---------------------------------------------------------------------------
\* Strings of digits: str(id) and the order of Python strings

RECURSIVE Str(_)
\* str(n) of a natural number: its decimal digits, most significant first
Str(n) == IF n < 10 THEN <<n>> ELSE Append(Str(n \div 10), n % 10)

RECURSIVE StrLess(_, _)
\* s < t for Python strings (lexicographic, a proper prefix is smaller)
StrLess(s, t) ==
    IF t = <<>> THEN FALSE
    ELSE IF s = <<>> THEN TRUE
    ELSE IF Head(s) # Head(t) THEN Head(s) < Head(t)
    ELSE StrLess(Tail(s), Tail(t))

\* x in seq, for a Python list
InList(x, seq) == \E i \in 1..Len(seq) : seq[i] = x

\* sub in s, for two Python strings: sub is a substring of s
InStr(sub, s) ==
    \E i \in 0..Len(s) : i + Len(sub) <= Len(s)
                         /\ SubSeq(s, i + 1, i + Len(sub)) = sub

RECURSIVE InsertSorted(_, _)
InsertSorted(x, seq) ==
    IF seq = <<>> THEN <<x>>
    ELSE IF StrLess(x, Head(seq)) THEN <<x>> \o seq
    ELSE <<Head(seq)>> \o InsertSorted(x, Tail(seq))

RECURSIVE ListSort(_)
\* list.sort() on a list of strings
ListSort(seq) == IF seq = <<>> THEN <<>>
                 ELSE InsertSorted(Head(seq), ListSort(Tail(seq)))

---------------------------------------------------------------------------
\* The download ledger: update_download_stats (filtering.py)

\* Contents of downloaded_ids.json.  kind is
\*   "absent"    the file does not exist
\*   "invalid"   the file holds no valid JSON
\*   "nonobject" valid JSON that is not an object (e.g. "" or [])
\*   "noids"     an object without the key "ids"
\*   "list"      an object whose "ids" is a list (ids: the list)
\*   "idsnull"   an object whose "ids" is null
\*   "idsnumber" an object whose "ids" is a number
\*   "idsstring" an object whose "ids" is a string (ids: the string)
\* extra: the object holds other keys beside "ids"
LedgerFile(kind, ids, extra) == [kind |-> kind, ids |-> ids, extra |-> extra]

AbsentLedger == LedgerFile("absent", <<>>, FALSE)

\* the file {"ids": ids}
IdsLedger(ids) == LedgerFile("list", ids, FALSE)

\* json.dumps("") written when the file does not exist (lines 50-52)
FirstTimeLedger(led) ==
    IF led.kind = "absent" THEN LedgerFile("nonobject", <<>>, FALSE) ELSE led

\* obj after lines 55-69: parsing, "sanitize wrong formats", default ids
LoadedLedger(led) ==
    IF led.kind \in {"invalid", "nonobject"} THEN LedgerFile("list", <<>>, FALSE)
    ELSE IF led.kind = "noids" THEN LedgerFile("list", <<>>, led.extra)
    ELSE led

\* obj[KEY_IDS].sort() of line 76 left out
AppendIdNoSort(ids, sid) == Append(ids, sid)

\* lines 75-76: obj[KEY_IDS].append(activity_id); obj[KEY_IDS].sort()
AppendId(ids, sid) == ListSort(Append(ids, sid))

\* the membership test of line 71 left out
AlreadyInNever(ids, sid) == FALSE

\* line 71: activity_id in obj[KEY_IDS], for a list
AlreadyIn(ids, sid) == InList(sid, ids)

\* the ledger file left as it is
update_download_stats_skipped(led, sid) == [ledger |-> led, raised |-> FALSE]

\* update_download_stats(activity_id, dir): the ledger file it leaves and
\* whether it raised
update_download_stats(led, sid) ==
    LET file == FirstTimeLedger(led)
        obj == LoadedLedger(file)
    IN  CASE obj.kind \in {"idsnull", "idsnumber"} ->
                \* line 71: TypeError, argument is not iterable
                [ledger |-> file, raised |-> TRUE]
          [] obj.kind = "idsstring" ->
                IF InStr(sid, obj.ids)
                THEN [ledger |-> file, raised |-> FALSE]      \* line 73
                \* line 75: AttributeError, str has no append
                ELSE [ledger |-> file, raised |-> TRUE]
          [] OTHER ->
                IF AlreadyIn(obj.ids, sid)
                THEN [ledger |-> file, raised |-> FALSE]      \* line 73
                ELSE [ledger |-> LedgerFile("list", AppendId(obj.ids, sid), obj.extra),
                      raised |-> FALSE]

\* Ledger files that are not a well-formed ledger
MalformedLedgers ==
    {LedgerFile("invalid", <<>>, FALSE), LedgerFile("nonobject", <<>>, FALSE),
     LedgerFile("noids", <<>>, FALSE), LedgerFile("noids", <<>>, TRUE),
     LedgerFile("idsnull", <<>>, FALSE), LedgerFile("idsnumber", <<>>, FALSE)}
    \cup {LedgerFile("idsstring", Str(i), FALSE) : i \in ActivityIds}

\* a call of update_download_stats
UpdateDownloadStats ==
    /\ uds_calls < MaxCalls
    /\ \E id \in ActivityIds :
          LET r == update_download_stats(ledger, Str(id))
          IN  /\ ledger' = r.ledger
              /\ uds_raised' = r.raised
              /\ uds_last' = id
              /\ passed' = passed \cup {id}
    /\ uds_calls' = uds_calls + 1
    /\ UNCHANGED <<led0, annotateVars, detailsVars, multiVars, mainVars, unitVars>>

\* the activities the service lists, the most recent first
ServerActivities == <<10, 8>>

ServerIds == {ServerActivities[i] : i \in 1..Len(ServerActivities)}

\* no current item
\*   id      its activityId
\*   dev     what its details hold of its device (see Dev)
\*   raises  csv_write_record will raise on its details
\*   samples extract['samples']: "None", or the answer to the samples request
\*           ("counted": with metricsCount, "empty": {}, "nokey": without it)
\*   start   extract['start_time_with_offset'] (see offset_date_time)
NoCur == [id |-> 0, dev |-> [kind |-> "none", inst |-> 0], raises |-> FALSE,
          samples |-> "None", start |-> [naive |-> 0, tzinfo |-> [class |-> "none"]]]

\* the command line: python export.py with defaults
\*   format, unzip  --format, --unzip
\*   start          --start_activity_no
\*   exclude        the file named by --exclude (see ExcludeFile)
\*   zones, samples, gear, device   the template (--template) holds the
\*                  columns hrZone1Low or hrZone1Seconds, sampleCount, gear,
\*                  device
DefaultArgs == [format |-> "gpx", unzip |-> FALSE, start |-> 1,
                exclude |-> [kind |-> "none", ids |-> {}],
                zones |-> TRUE, samples |-> TRUE, gear |-> TRUE, device |-> TRUE]

\* a lookup request (what: "device", "samples", "gear", "zones") and
\* whether it failed; what is "none" when a step makes no such request
Lookup(what, failed) == [what |-> what, failed |-> failed]

\* the variables of a run before main starts
InitRunVars ==
    /\ pc = "idle"
    /\ status = "none"
    /\ diag = "none"
    /\ exclude_list = {}
    /\ action_list = <<>>
    /\ item_no = 0
    /\ cur = NoCur
    /\ device_dict = <<>>
    /\ hr_zones = {}
    /\ export_result = "none"
    /\ requested = FALSE
    /\ answered = "none"
    /\ looked = Lookup("none", FALSE)
    /\ overwrote = {}
    /\ tried = [a \in ServerIds |-> 0]
    /\ pwrites = [a \in ServerIds |-> 0]

InitMainIdle ==
    /\ files = {} /\ csv = <<>> /\ csv_exists = FALSE
    /\ dir0 = "new"
    /\ args = DefaultArgs
    /\ InitRunVars

InitListIdle == fl_total = 0 /\ fl_downloaded = 0 /\ fl_requests = <<>>
                /\ fl_got = 0 /\ fl_pc = "idle"

InitFilterIdle == cf_template = <<>> /\ cf_row = <<>> /\ cf_out = <<>>
                  /\ cf_last = [op |-> "none"] /\ cf_raised = FALSE

InitRecordIdle == wr_in = <<>> /\ wr_out = [outcome |-> "none"] /\ wr_pc = "idle"

InitDeviceIdle == dv_dict = <<>> /\ dv_reqs = <<>> /\ dv_calls = 0 /\ dv_last = [outcome |-> "none"] /\ dv_pc = "idle"

InitZonesIdle == hz_global = {} /\ hz_calls = 0 /\ hz_last = [outcome |-> "none"]

InitFormatIdle == fmt_in = [fn |-> "none"] /\ fmt_out = [outcome |-> "none"]

InitUnitsIdle == InitListIdle /\ InitFilterIdle /\ InitRecordIdle /\ InitDeviceIdle /\ InitZonesIdle /\ InitFormatIdle
InitListOthers == InitFilterIdle /\ InitRecordIdle /\ InitDeviceIdle /\ InitZonesIdle /\ InitFormatIdle
InitFilterOthers == InitListIdle /\ InitRecordIdle /\ InitDeviceIdle /\ InitZonesIdle /\ InitFormatIdle
InitRecordOthers == InitListIdle /\ InitFilterIdle /\ InitDeviceIdle /\ InitZonesIdle /\ InitFormatIdle
InitDeviceOthers == InitListIdle /\ InitFilterIdle /\ InitRecordIdle /\ InitZonesIdle /\ InitFormatIdle
InitZonesOthers == InitListIdle /\ InitFilterIdle /\ InitRecordIdle /\ InitDeviceIdle /\ InitFormatIdle
InitFormatOthers == InitListIdle /\ InitFilterIdle /\ InitRecordIdle /\ InitDeviceIdle /\ InitZonesIdle

InitAnnotateIdle == an_in = [activities |-> <<>>, start |-> 1, exclude |-> {}]
                    /\ an_out = <<>> /\ an_pc = "idle"

InitDetailsIdle == fd_resps = <<>> /\ fd_out = [outcome |-> "none"] /\ fd_pc = "idle"

InitMultiIdle == ms_page = <<>> /\ ms_server = <<>> /\ ms_out = [outcome |-> "none"]
                 /\ ms_pc = "idle"

InitLedgerVars(contents) ==
    /\ ledger \in contents
    /\ led0 = ledger
    /\ passed = {}
    /\ uds_calls = 0
    /\ uds_last = 0
    /\ uds_raised = FALSE

\* update_download_stats on the ledger of a fresh export directory
InitLedger == InitLedgerVars({AbsentLedger}) /\ InitAnnotateIdle
              /\ InitDetailsIdle /\ InitMultiIdle /\ InitMainIdle /\ InitUnitsIdle

NextLedger == UpdateDownloadStats

SpecLedger == InitLedger /\ [][NextLedger]_vars

\* update_download_stats on a ledger file that is not well formed
InitLedgerMalformed == InitLedgerVars(MalformedLedgers) /\ InitAnnotateIdle
                       /\ InitDetailsIdle /\ InitMultiIdle /\ InitMainIdle /\ InitUnitsIdle

SpecLedgerMalformed == InitLedgerMalformed /\ [][NextLedger]_vars

---------------------------------------------------------------------------
\* C8: after any sequence of update_download_stats calls, duplicates
\* interleaved in any order, the ids list of the ledger holds every ID
\* passed so far, each at most once, in ascending (string) order.
C8_LedgerInvariant ==
    /\ ledger.kind \in {"absent", "list"}
    /\ ~uds_raised
    /\ {ledger.ids[i] : i \in 1..Len(ledger.ids)} = {Str(id) : id \in passed}
    /\ \A i, j \in 1..Len(ledger.ids) : i < j => StrLess(ledger.ids[i], ledger.ids[j])

\* three distinct IDs are in the ledger, one of them was passed twice, and
\* the string order differs from the numeric order
C8_Witness ==
    /\ Len(ledger.ids) >= 3
    /\ uds_calls > Cardinality(passed)
    /\ \E a, b \in passed : a < b /\ StrLess(Str(b), Str(a))

\* C9: for every content of downloaded_ids.json that is not a well-formed
\* ledger, update_download_stats(id) does not raise and leaves the ledger
\* equal to {"ids": [id]}.
C9_MalformedLedgerIsEmpty ==
    uds_calls = 1 => /\ ~uds_raised
                     /\ ledger.kind = "list"
                     /\ ledger.ids = <<Str(uds_last)>>

---------------------------------------------------------------------------
\* annotate_activity_list (export.py)

\* the activity IDs of the lists given to annotate_activity_list
AnnotateIds == {100, 123, 200}

\* the sequences over S of length at most n
SeqsUpTo(S, n) == UNION {[1..k -> S] : k \in 0..n}

\* line 963 with the exclusion test of line 965 moved before it
ActionOfExcludeFirst(index, a, start, excluded) ==
    IF Str(a) \in excluded THEN "e"
    ELSE IF index < (start - 1) THEN "s"
    ELSE "d"

\* lines 963-968: the action of the activity with ID a at position index
ActionOf(index, a, start, excluded) ==
    IF index < (start - 1) THEN "s"
    ELSE IF Str(a) \in excluded THEN "e"
    ELSE "d"

\* annotate_activity_list(activities, start, excluded); activities is
\* the sequence of the activityId of every summary
annotate_activity_list(activities, start, excluded) ==
    [i \in 1..Len(activities) |->
        [index |-> i - 1,
         action |-> ActionOf(i - 1, activities[i], start, excluded),
         activity |-> activities[i]]]

\* a call of annotate_activity_list
Annotate ==
    /\ an_pc = "idle"
    /\ an_out' = annotate_activity_list(an_in.activities, an_in.start, an_in.exclude)
    /\ an_pc' = "done"
    /\ UNCHANGED <<an_in, ledgerVars, detailsVars, multiVars, mainVars, unitVars>>

InitLedgerIdle == InitLedgerVars({AbsentLedger})

InitAnnotate ==
    /\ an_in \in [activities : SeqsUpTo(AnnotateIds, MaxLen),
                  start : 1..MaxStart,
                  exclude : SUBSET {Str(a) : a \in AnnotateIds}]
    /\ an_out = <<>>
    /\ an_pc = "idle"
    /\ InitLedgerIdle /\ InitDetailsIdle /\ InitMultiIdle /\ InitMainIdle /\ InitUnitsIdle

NextAnnotate == Annotate

SpecAnnotate == InitAnnotate /\ [][NextAnnotate]_vars

\* C6: annotate_activity_list returns one entry per activity, in the same
\* order, with index equal to the 0-based position; the action is skip iff
\* position < start-1, exclude iff position >= start-1 and str(ID) is in
\* the exclusion set, download otherwise.  [100, 123, 200] with start 1
\* and exclusion {"123"} gives [download, exclude, download].
C6_Annotate ==
    an_pc = "done" =>
        /\ Len(an_out) = Len(an_in.activities)
        /\ \A p \in 0..(Len(an_out) - 1) :
              LET e == an_out[p + 1]
                  excluded == Str(an_in.activities[p + 1]) \in an_in.exclude
              IN  /\ e.index = p
                  /\ e.activity = an_in.activities[p + 1]
                  /\ e.action \in {"s", "e", "d"}
                  /\ (e.action = "s") <=> (p < an_in.start - 1)
                  /\ (e.action = "e") <=> (p >= an_in.start - 1 /\ excluded)
        /\ (an_in = [activities |-> <<100, 123, 200>>, start |-> 1,
                     exclude |-> {Str(123)}]
              => [i \in 1..3 |-> an_out[i].action] = <<"d", "e", "d">>)

\* an excluded activity before the start index is marked skip, and one
\* after it is marked exclude
C6_Witness ==
    /\ an_pc = "done"
    /\ an_in.activities = <<123, 100, 123>>
    /\ an_in.start = 2
    /\ an_in.exclude = {Str(123)}
    /\ [i \in 1..3 |-> an_out[i].action] = <<"s", "d", "e">>


---------------------------------------------------------------------------
\* fetch_details (export.py)

MAX_TRIES == 3

\* An answer of the activity service to a details request.
\*   http        "ok", or "error": http_caller raises
\*   summaryDTO  "full" (a non-empty object), "empty" ({}), "null", or
\*               "missing" (the key is absent)
\*   typeKey     activityTypeDTO.typeKey: "multi_sport", "other" or "none"
\*   hasChildIds metadataDTO is present and holds childIds
\*   childIds    metadataDTO.childIds
DetailsAnswer(http, summaryDTO, typeKey, hasChildIds, childIds) ==
    [http |-> http, summaryDTO |-> summaryDTO, typeKey |-> typeKey,
     hasChildIds |-> hasChildIds, childIds |-> childIds]

\* the outcome of a call: "returned" with the details, or "raised"
FdReturned(details, requests) ==
    [outcome |-> "returned", details |-> details, requests |-> requests]

FdRaised(details, requests) ==
    [outcome |-> "raised", details |-> details, requests |-> requests]

\* fetch_details(activity_id, http_caller); resps[k] is the answer to the
\* k-th request.  The body of the while loop (lines 1036-1045) ends with
\* the return of line 1045, so that it runs once: tries = MAX_TRIES > 0,
\* and after tries -= 1 it is MAX_TRIES - 1, which is not 0.
fetch_details(resps) ==
    LET tries == MAX_TRIES
        r == resps[1]
    IN  IF ~(tries > 0) THEN FdReturned(r, 0)
        ELSE IF r.http = "error" THEN FdRaised(r, 1)             \* line 1036
        ELSE IF r.summaryDTO = "missing" THEN FdRaised(r, 1)     \* line 1038: KeyError
        ELSE IF r.summaryDTO = "full" THEN FdReturned(r, 1)     \* lines 1039, 1045
        ELSE IF tries - 1 = 0 THEN FdRaised(r, 1)                \* line 1044
        ELSE FdReturned(r, 1)                                    \* line 1045

\* a call of fetch_details
FetchDetails ==
    /\ fd_pc = "idle"
    /\ fd_out' = fetch_details(fd_resps)
    /\ fd_pc' = "done"
    /\ UNCHANGED <<fd_resps, ledgerVars, annotateVars, multiVars, mainVars, unitVars>>

\* the answers of the service to one details request after another
DetailsAnswers ==
    {DetailsAnswer(h, s, "other", FALSE, <<>>) :
        h \in {"ok"}, s \in {"full", "empty", "null", "missing"}}
    \cup {DetailsAnswer("error", "missing", "other", FALSE, <<>>)}

InitDetails ==
    /\ fd_resps \in [1..MAX_TRIES -> DetailsAnswers]
    /\ fd_out = [outcome |-> "none"]
    /\ fd_pc = "idle"
    /\ InitLedgerIdle /\ InitAnnotateIdle /\ InitMultiIdle /\ InitMainIdle /\ InitUnitsIdle

NextDetails == FetchDetails

SpecDetails == InitDetails /\ [][NextDetails]_vars

\* the k-th answer arrives and lacks a non-empty summaryDTO
LacksSummary(k) == fd_resps[k].http = "ok" /\ fd_resps[k].summaryDTO # "full"

\* the k-th answer arrives with a non-empty summaryDTO
HasSummary(k) == fd_resps[k].http = "ok" /\ fd_resps[k].summaryDTO = "full"

\* C4: when a details answer has a missing or empty summaryDTO the details
\* are requested again, up to 3 attempts in total; the first answer with a
\* non-empty summaryDTO is returned, and the call fails when all 3 lack it.
C4_RetryOnMissingSummary ==
    fd_pc = "done" =>
        /\ \A k \in 1..MAX_TRIES :
              (HasSummary(k) /\ \A j \in 1..(k - 1) : LacksSummary(j))
                 => fd_out = FdReturned(fd_resps[k], k)
        /\ (\A k \in 1..MAX_TRIES : LacksSummary(k))
              => (fd_out.outcome = "raised" /\ fd_out.requests = MAX_TRIES)

---------------------------------------------------------------------------
\* fetch_multisports (export.py)

\* longest page given to fetch_multisports
MaxPageLen == 2
\* longest childIds list of a multisport parent
MaxChildren == 2

\* IDs of the summaries of a list page: 1 and 2 are of type multi_sport,
\* 3 is not
MultiIds == {1, 2}
PageIds == MultiIds \cup {3}
\* IDs of the legs of the multisport activities, and of a leg of a leg
LegIds == {11, 12}
SubLegIds == {21}

\* An entry of the page.  from is "list" for a summary of the list page,
\* and for a summary made by copy_details_to_summary the summaryDTO of the
\* details it was made from.
Summary(id, typeKey, from) == [activityId |-> id, typeKey |-> typeKey, from |-> from]

\* the summary of the list page for a page ID
ListSummary(id) == Summary(id, IF id \in MultiIds THEN "multi_sport" ELSE "other", "list")

\* the same answer to every request for one activity
Answers(d) == [k \in 1..MAX_TRIES |-> d]

\* copy_details_to_summary(summary, details), lines 1055-1071
copy_details_to_summary(id, details) == Summary(id, details.typeKey, details.summaryDTO)

RECURSIVE Reverse(_)
Reverse(s) == IF s = <<>> THEN <<>> ELSE Append(Reverse(Tail(s)), Head(s))

\* the children taken in the order of childIds
ChildOrderForward(child_ids) == child_ids

\* line 1017: for child_id in reversed(child_ids)
ChildOrder(child_ids) == Reverse(child_ids)

\* list.insert(i, x), i a 0-based index not beyond the end
ListInsert(list, i, x) == SubSeq(list, 1, i) \o <<x>> \o SubSeq(list, i + 1, Len(list))

MsReturned(page) == [outcome |-> "returned", page |-> page]

MsRaised(page) == [outcome |-> "raised", page |-> page]

RECURSIVE InsertChildren(_, _, _, _)
\* lines 1017-1023: the loop over the children; idx is the 0-based index
\* of the parent and ids the children still to be inserted
InsertChildren(page, idx, ids, server) ==
    IF ids = <<>> THEN MsReturned(page)
    ELSE LET child_id == Head(ids)
             fd == fetch_details(Answers(server[child_id]))
         IN  IF fd.outcome # "returned" THEN MsRaised(page)       \* line 1018
             \* line 1064: 'startTimeLocal' in None is a TypeError
             ELSE IF fd.details.summaryDTO = "null" THEN MsRaised(page)
             ELSE InsertChildren(
                     ListInsert(page, idx + 1, copy_details_to_summary(child_id, fd.details)),
                     idx, Tail(ids), server)

RECURSIVE fetch_multisports_from(_, _, _)
\* lines 1010-1023: the for loop from the 0-based index idx on.  The loop
\* iterates over the list it inserts into, so that it also visits the
\* children it has inserted.
fetch_multisports_from(page, idx, server) ==
    IF idx >= Len(page) THEN MsReturned(page)
    ELSE IF page[idx + 1].typeKey # "multi_sport"                 \* lines 1011-1012
         THEN fetch_multisports_from(page, idx + 1, server)
    ELSE LET fd == fetch_details(Answers(server[page[idx + 1].activityId]))
         IN  IF fd.outcome # "returned" THEN MsRaised(page)       \* line 1013
             \* line 1017: child_ids is None, reversed(None) is a TypeError
             ELSE IF ~fd.details.hasChildIds THEN MsRaised(page)
             ELSE LET ins == InsertChildren(page, idx, ChildOrder(fd.details.childIds), server)
                  IN  IF ins.outcome # "returned" THEN ins
                      ELSE fetch_multisports_from(ins.page, idx + 1, server)

\* fetch_multisports(activity_summaries, http_caller, args)
fetch_multisports(page, server) == fetch_multisports_from(page, 0, server)

\* a call of fetch_multisports
FetchMultisports ==
    /\ ms_pc = "idle"
    /\ ms_out' = fetch_multisports(ms_page, ms_server)
    /\ ms_pc' = "done"
    /\ UNCHANGED <<ms_page, ms_server, ledgerVars, annotateVars, detailsVars, mainVars, unitVars>>

\* what the service may hold for a multisport parent, for a leg and for a
\* leg of a leg
ParentDetails ==
    {DetailsAnswer("ok", "full", "multi_sport", TRUE, c) : c \in SeqsUpTo(LegIds, MaxChildren)}
    \cup {DetailsAnswer("ok", "full", "multi_sport", FALSE, <<>>),
          DetailsAnswer("ok", "empty", "multi_sport", TRUE, <<11>>),
          DetailsAnswer("ok", "missing", "multi_sport", TRUE, <<11>>),
          DetailsAnswer("error", "missing", "multi_sport", FALSE, <<>>)}

LegDetails ==
    {DetailsAnswer("ok", s, "other", FALSE, <<>>) : s \in {"full", "empty", "null"}}
    \cup {DetailsAnswer("ok", "full", "multi_sport", TRUE, <<21>>)}

SubLegDetails == {DetailsAnswer("ok", "full", "other", FALSE, <<>>)}

InitMulti ==
    /\ ms_page \in {[i \in 1..Len(ids) |-> ListSummary(ids[i])] :
                        ids \in SeqsUpTo(PageIds, MaxPageLen)}
    /\ \E p \in [MultiIds -> ParentDetails], l \in [LegIds -> LegDetails],
          s \in [SubLegIds -> SubLegDetails] :
          ms_server = [id \in MultiIds \cup LegIds \cup SubLegIds |->
                          IF id \in MultiIds THEN p[id]
                          ELSE IF id \in LegIds THEN l[id] ELSE s[id]]
    /\ ms_out = [outcome |-> "none"]
    /\ ms_pc = "idle"
    /\ InitLedgerIdle /\ InitAnnotateIdle /\ InitDetailsIdle /\ InitMainIdle /\ InitUnitsIdle

NextMulti == FetchMultisports

SpecMulti == InitMulti /\ [][NextMulti]_vars

RECURSIVE Flatten(_)
Flatten(ss) == IF ss = <<>> THEN <<>> ELSE Head(ss) \o Flatten(Tail(ss))

\* the summaries of the children of a page entry, in the order of childIds
ChildSummaries(e) ==
    IF e.typeKey # "multi_sport" THEN <<>>
    ELSE LET c == ms_server[e.activityId].childIds
         IN  [i \in 1..Len(c) |-> copy_details_to_summary(c[i], ms_server[c[i]])]

\* the page with the children of every parent right after it: [parent, A, B, C, ...rest]
ExpandedPage == Flatten([i \in 1..Len(ms_page) |-> <<ms_page[i]>> \o ChildSummaries(ms_page[i])])

\* some child of a multisport parent of the page is itself a multi_sport activity
NestedMultisport ==
    \E i \in 1..Len(ms_page) : \E j \in 1..Len(ChildSummaries(ms_page[i])) :
        ChildSummaries(ms_page[i])[j].typeKey = "multi_sport"

C5_SummaryPresent ==
    (ms_pc = "done" /\ ms_out.outcome = "returned") =>
        \A i \in 1..Len(ms_out.page) : ms_out.page[i].from \in {"list", "full"}

---------------------------------------------------------------------------
\* main (export.py): the files of the export directory

\* the name of a file of the export directory.  kind is
\*   "gpx", "tcx", "zip", "json", "fit"   activity_<id>.<kind>
\*   "list"       activities-1-<id>.json
\*   "userstats"  userstats.json
\*   "device"     device_<id>.json
\*   "zones"      activity_<id>_zones.json
\*   "samples"    activity <id>_samples.json
FileName(kind, id) == [kind |-> kind, id |-> id]

\* the kinds of the primary data files and of the files unzipped from them
PrimaryKinds == {"gpx", "tcx", "zip", "json", "fit"}

\* the outcome of write_to_file: the files afterwards, whether it raised,
\* and the existing files it has truncated
Written(fs, name) ==
    [files |-> fs \cup {name}, raised |-> FALSE, overwrote |-> fs \cap {name}]

\* nothing is written, and nothing raised
write_to_file_dropped(fs, name, mode) ==
    [files |-> fs, raised |-> FALSE, overwrote |-> {}]

\* write_to_file(filename, content, mode): io.open(filename, 'w') creates
\* or truncates the file; io.open(filename, 'wb', encoding="utf-8") of
\* line 191 raises ValueError (binary mode takes no encoding) before the
\* file is opened
write_to_file(fs, name, mode) ==
    IF mode = "w" THEN Written(fs, name)
    ELSE [files |-> fs, raised |-> TRUE, overwrote |-> {}]

---------------------------------------------------------------------------
\* main (export.py): from the start of a run to the annotated list

\* the header line of activities.csv
CsvHeader == [kind |-> "header", id |-> 0]

\* the line of activities.csv for an activity
CsvRow(id) == [kind |-> "row", id |-> id]

\* the step is not a call of export_data_file
NoExport == export_result' = "none" /\ requested' = FALSE /\ answered' = "none"

\* the step makes no lookup request
NoLookup == looked' = Lookup("none", FALSE)

\* the step is not a call of export_data_file, makes no lookup request and
\* leaves the rest of the run's variables as they are
KeepItem == UNCHANGED <<cur, device_dict, hr_zones>> /\ NoExport /\ NoLookup

\* the ledger's own bookkeeping, which main does not use
KeepOthers == UNCHANGED <<led0, passed, uds_calls, uds_last, uds_raised,
                          annotateVars, detailsVars, multiVars, args, dir0, unitVars>>

\* an uncaught exception ends the run
Crash == pc' = "idle" /\ status' = "crashed"

\* python export.py is started on the export directory
StartRun ==
    /\ pc = "idle"
    /\ pc' = "exclude"
    /\ status' = "running"
    /\ diag' = "none"
    /\ exclude_list' = {}
    /\ action_list' = <<>>
    /\ item_no' = 0
    /\ cur' = NoCur
    /\ device_dict' = <<>>
    /\ hr_zones' = {}
    /\ NoExport /\ NoLookup
    /\ overwrote' = {}
    /\ UNCHANGED <<dirVars, ledger, tried, pwrites>>
    /\ KeepOthers

\* The file named by --exclude.  kind is "none" (no --exclude), "notfound",
\* "invalid" (no valid JSON), "noids" (a JSON object without "ids") or
\* "valid" (ids: its list of ID strings).
ExcludeFile(kind, ids) == [kind |-> kind, ids |-> ids]

\* read_exclude with "no valid JSON" read as an empty list
read_exclude_lenient(file) ==
    CASE file.kind = "notfound" -> [result |-> "None", ids |-> {}, diag |-> "File not found"]
      [] file.kind = "invalid" -> [result |-> "list", ids |-> {}, diag |-> "no valid JSON"]
      [] file.kind = "noids" -> [result |-> "raised", ids |-> {}, diag |-> "none"]
      [] OTHER -> [result |-> "list", ids |-> file.ids, diag |-> "none"]

\* read_exclude(file), filtering.py lines 17-36
read_exclude(file) ==
    CASE file.kind = "notfound" -> [result |-> "None", ids |-> {}, diag |-> "File not found"]
      [] file.kind = "invalid" -> [result |-> "None", ids |-> {}, diag |-> "no valid JSON"]
      \* line 33: obj['ids'] is a KeyError, which is not caught
      [] file.kind = "noids" -> [result |-> "raised", ids |-> {}, diag |-> "none"]
      [] OTHER -> [result |-> "list", ids |-> file.ids, diag |-> "none"]

\* main, lines 1088-1099: the exclusion list
ReadExclude ==
    /\ pc = "exclude"
    /\ IF args.exclude.kind = "none"
       THEN exclude_list' = {} /\ diag' = diag /\ pc' = "login" /\ status' = status
       ELSE LET r == read_exclude(args.exclude)
            IN  /\ diag' = r.diag
                /\ exclude_list' = r.ids
                /\ CASE r.result = "None" -> pc' = "idle" /\ status' = "exit1"   \* line 1092
                     [] r.result = "raised" -> Crash
                     [] OTHER -> pc' = "login" /\ status' = status
    /\ overwrote' = {}
    /\ UNCHANGED <<dirVars, ledger, action_list, item_no, tried, pwrites>>
    /\ KeepItem /\ KeepOthers

\* main, line 1101: login_to_garmin_connect, which returns or raises
Login ==
    /\ pc = "login"
    /\ \E ok \in BOOLEAN : IF ok THEN pc' = "csv" /\ status' = status ELSE Crash
    /\ overwrote' = {}
    /\ UNCHANGED <<dirVars, ledger, diag, exclude_list, action_list, item_no, tried, pwrites>>
    /\ KeepItem /\ KeepOthers

\* activities.csv opened with mode 'w' instead of 'a'
OpenedCsvTruncated(rows, existed) == <<CsvHeader>>

\* lines 1103-1111: the lines of activities.csv once it is opened with
\* mode 'a' and has got its header when it did not exist
OpenedCsv(rows, existed) == IF existed THEN rows ELSE Append(rows, CsvHeader)

\* main, lines 1103-1111: activities.csv is opened for appending, which
\* creates it; CsvFilter (lines 407-418) then reads the template file, and
\* open raises when it cannot be read (a --template that is no file), before
\* the header is written
OpenCsv ==
    /\ pc = "csv"
    /\ csv_exists' = TRUE
    /\ \E template \in {"read", "unreadable"} :
          IF template = "unreadable"
          THEN csv' = csv /\ Crash
          ELSE /\ csv' = OpenedCsv(csv, csv_exists)
               /\ pc' = "userstats" /\ status' = status
    /\ overwrote' = {}
    /\ UNCHANGED <<files, ledger, diag, exclude_list, action_list, item_no,
                   tried, pwrites>>
    /\ KeepItem /\ KeepOthers

\* main, lines 1114-1130: fetch_userstats, which writes userstats.json
\* (line 910), and the two properties files; a failed request raises
FetchUserstats ==
    /\ pc = "userstats"
    /\ \E answer \in {"ok", "error", "error_later"} :
          IF answer = "error"
          THEN Crash /\ UNCHANGED files /\ overwrote' = {}
          ELSE LET w == write_to_file(files, FileName("userstats", 0), "w")
               IN  /\ files' = w.files
                   /\ overwrote' = w.overwrote
                   /\ IF answer = "ok" THEN pc' = "list" /\ status' = status ELSE Crash
    /\ UNCHANGED <<csv, csv_exists, ledger, diag, exclude_list, action_list, item_no,
                   tried, pwrites>>
    /\ KeepItem /\ KeepOthers

\* the page the list request returns: the summaries of the activities
ListPage == [i \in 1..Len(ServerActivities) |-> Summary(ServerActivities[i], "other", "list")]

\* main, lines 1132-1133: fetch_activity_list (one chunk: the count is at
\* most LIMIT_MAXIMUM), which writes activities-1-<n>.json (line 996) and
\* expands the multisports, then annotate_activity_list
FetchActivityList ==
    /\ pc = "list"
    /\ \E answer \in {"ok", "error"} :
          IF answer = "error"
          THEN Crash /\ UNCHANGED <<files, action_list>> /\ overwrote' = {}
          ELSE LET w == write_to_file(files, FileName("list", Len(ServerActivities)), "w")
                   ms == fetch_multisports(ListPage, <<>>)
                   activities == [i \in 1..Len(ms.page) |-> ms.page[i].activityId]
               IN  /\ files' = w.files
                   /\ overwrote' = w.overwrote
                   /\ action_list' = annotate_activity_list(activities, args.start, exclude_list)
                   /\ pc' = "item" /\ status' = status
    /\ item_no' = 0
    /\ UNCHANGED <<csv, csv_exists, ledger, diag, exclude_list, tried, pwrites>>
    /\ KeepItem /\ KeepOthers

---------------------------------------------------------------------------
\* main (export.py): the loop over the annotated list, lines 1135-1206

\* the items taken from the end of the list
ItemReversed == action_list[Len(action_list) - item_no]

\* the item of the loop
Item == action_list[item_no + 1]

\* the body of the loop with export_data_file before the lookups
LoopBodyExportFirst ==
    <<"details", "export", "device", "samples", "gear", "zones", "record">>

\* lines 1152-1206: the statements of the body of the loop for an item
\* marked download, in their order: fetch_details and the extract,
\* extract_device, the samples, load_gear, load_zones, export_data_file,
\* csv_write_record
LoopBody ==
    <<"details", "device", "samples", "gear", "zones", "export", "record">>

\* the statement of the body that follows step
After(step) ==
    LET i == CHOOSE k \in 1..Len(LoopBody) : LoopBody[k] = step
    IN  IF i < Len(LoopBody) THEN LoopBody[i + 1] ELSE "item"

\* the loop goes on with the next item
NextItem == pc' = "item" /\ item_no' = item_no + 1 /\ status' = status

\* lines 1140-1150: an item marked skip or exclude
SkipItem ==
    /\ pc = "item" /\ item_no < Len(action_list)
    /\ Item.action \in {"s", "e"}
    /\ NextItem
    /\ overwrote' = {}
    /\ UNCHANGED <<dirVars, ledger, diag, exclude_list, action_list, tried, pwrites>>
    /\ KeepItem /\ KeepOthers

\* What the details of an activity hold of its device.  kind is "nometa"
\* (metadataDTO is null), "noinst" (no deviceApplicationInstallationId),
\* "metanull" (deviceMetaDataDTO is null), "unknown" (deviceId is null or
\* '0') or "known"; inst is the deviceApplicationInstallationId.
Dev(kind, inst) == [kind |-> kind, inst |-> inst]

\* an answer to the details request of main: DetailsAnswer with the device;
\* summaryDTO may also be "partial", an object that lacks some of the keys
\* csv_write_record reads
MainDetailsAnswer(http, summaryDTO, dev) ==
    [http |-> http, summaryDTO |-> summaryDTO, typeKey |-> "other",
     hasChildIds |-> FALSE, childIds |-> <<>>, dev |-> dev]

DevAnswers == {Dev("nometa", 0), Dev("noinst", 0), Dev("metanull", 1),
               Dev("unknown", 1), Dev("known", 1)}

MainDetailsAnswers ==
    {MainDetailsAnswer("ok", s, d) :
        s \in {"full", "partial", "empty", "null", "missing"}, d \in DevAnswers}
    \cup {MainDetailsAnswer("error", "missing", Dev("nometa", 0))}

\* timedelta.seconds of a difference of d seconds: timedelta normalises to
\* days and 0 <= seconds < 86400, so the days of a negative difference are
\* not in it
timedelta_seconds(d) == d % 86400

\* FixedOffset(offset, name), lines 319-337: a tzinfo that keeps the offset
\* in minutes and gives it by utc_offset (line 330)
FixedOffset(offset, name) == [class |-> "FixedOffset", offset |-> offset, name |-> name]

\* offset_date_time(time_local, time_gmt), lines 340-348, for two
\* well-formed timestamps given as the seconds of their naive instants
\* (datetime_from_iso): the naive local instant with its tzinfo
offset_date_time(time_local, time_gmt) ==
    LET offset == time_local - time_gmt
    IN  [naive |-> time_local,
         tzinfo |-> FixedOffset(timedelta_seconds(offset) \div 60, "LCL")]

\* datetime.utcoffset() of an aware datetime, which calls
\* tzinfo.utcoffset(dt): FixedOffset does not define it (its method is
\* utc_offset), and the one it inherits raises NotImplementedError.  The
\* tzinfo of the standard library ("timezone") returns its offset.
utcoffset(dt) ==
    IF dt.tzinfo.class = "FixedOffset"
    THEN [raised |-> TRUE, minutes |-> 0]
    ELSE [raised |-> FALSE, minutes |-> dt.tzinfo.offset]

\* datetime.isoformat() needs utcoffset() for the offset it appends
isoformat_raises(dt) == utcoffset(dt).raised

\* a datetime whose tzinfo is one of the standard library
AwareDatetime == [naive |-> 0, tzinfo |-> [class |-> "timezone", offset |-> 0, name |-> "UTC"]]

\* lines 1152-1181: an item marked download: fetch_details and the extract,
\* whose start_time_with_offset is start.  Line 1166 prints its isoformat().
\* csv_write_record will raise a KeyError (line 571 and on) when summaryDTO
\* is a non-empty object that lacks a key, and a TypeError (line 642) when
\* metadataDTO is null: present() (lines 283-289) looks the key up of any
\* non-empty object and tests None for membership.
ItemDetailsWith(start) ==
    /\ pc = "item" /\ item_no < Len(action_list)
    /\ Item.action = "d"
    /\ \E answer \in MainDetailsAnswers :
          LET fd == fetch_details(Answers(answer))
          IN  IF fd.outcome # "returned" THEN Crash /\ cur' = cur
              \* line 1161: 'elapsedDuration' in None is a TypeError
              ELSE IF fd.details.summaryDTO = "null" THEN Crash /\ cur' = cur
              \* line 1166: NotImplementedError
              ELSE IF isoformat_raises(start) THEN Crash /\ cur' = cur
              ELSE /\ cur' = [id |-> Item.activity, dev |-> fd.details.dev,
                              raises |-> \/ fd.details.summaryDTO = "partial"
                                         \/ fd.details.dev.kind = "nometa",
                              samples |-> "None", start |-> start]
                   /\ pc' = After("details") /\ status' = status
    /\ overwrote' = {}
    /\ NoExport /\ NoLookup
    /\ UNCHANGED <<dirVars, ledger, diag, exclude_list, action_list, item_no,
                   device_dict, hr_zones, tried, pwrites>>
    /\ KeepOthers

\* The item as main processes it: line 1160 makes start_time_with_offset
\* with offset_date_time, whatever the two timestamps of the summary.
ItemDetails == ItemDetailsWith(offset_date_time(0, 0))

\* The item when the tzinfo of start_time_with_offset gives its UTC offset,
\* so that line 1166 returns and the rest of the body is reached.
ItemDetailsFormattable == ItemDetailsWith(AwareDatetime)

\* device_dict[inst] = value
DictSet(dict, inst, value) ==
    [d \in DOMAIN dict \cup {inst} |-> IF d = inst THEN value ELSE dict[d]]

\* the device is looked up; the extract keeps nothing else of the details
DeviceDone == cur' = [cur EXCEPT !.dev = Dev("done", 0)]
              /\ pc' = After("device") /\ status' = status

\* the cache is never found to hold the installation ID
DeviceCachedNever(dict, inst) == FALSE

\* line 675: device_app_inst_id is in device_dict
DeviceCached(dict, inst) == inst \in DOMAIN dict

\* the answers to a device request: an HTTP error, an empty body, and
\* details with and without productDisplayName
DeviceAnswers == {"error", "empty", "named", "unnamed"}

\* the outcome of extract_device: device_dict afterwards, "returned" with
\* the value or "raised", whether the device was requested and whether
\* device_<id>.json was written
DeviceOutcome(dict, outcome, value, req, wrote) ==
    [dict |-> dict, outcome |-> outcome, value |-> value, requested |-> req,
     wrote |-> wrote]

\* extract_device(device_dict, details, ...), lines 659-699; dev is what
\* the details hold of the device and answer the answer to the device
\* request, if one is made
extract_device(dict, dev, answer) ==
    LET inst == dev.inst
    IN  CASE dev.kind \in {"nometa", "noinst"} ->                   \* lines 671, 699
               DeviceOutcome(dict, "returned", "None", FALSE, FALSE)
          [] dev.kind \notin {"nometa", "noinst"} /\ DeviceCached(dict, inst) ->
               DeviceOutcome(dict, "returned", dict[inst], FALSE, FALSE)  \* line 698
          [] dev.kind = "metanull" /\ ~DeviceCached(dict, inst) ->
               \* line 685: 'deviceId' in None is a TypeError
               DeviceOutcome(DictSet(dict, inst, "None"), "raised", "None", FALSE, FALSE)
          [] dev.kind = "unknown" /\ ~DeviceCached(dict, inst) ->
               DeviceOutcome(DictSet(dict, inst, "None"), "returned", "None", FALSE, FALSE)
          [] dev.kind = "known" /\ ~DeviceCached(dict, inst) ->
               IF answer = "error"                                   \* line 687
               THEN DeviceOutcome(DictSet(dict, inst, "None"), "raised", "None", TRUE, FALSE)
               ELSE LET value == CASE answer = "empty" -> "device_id"
                                   [] answer = "named" -> "name"
                                   [] OTHER -> "None"
                    IN  DeviceOutcome(DictSet(dict, inst, value), "returned", value,
                                      TRUE, TRUE)

\* line 1183: extract_device for the current item
ExtractDevice ==
    /\ pc = "device"
    /\ \E answer \in DeviceAnswers :
          LET x == extract_device(device_dict, cur.dev, answer)
              w == write_to_file(files, FileName("device", cur.dev.inst), "w")
          IN  /\ device_dict' = x.dict
              /\ files' = IF x.wrote THEN w.files ELSE files
              /\ overwrote' = IF x.wrote THEN w.overwrote ELSE {}
              /\ looked' = IF x.requested THEN Lookup("device", answer = "error")
                            ELSE Lookup("none", FALSE)
              /\ IF x.outcome = "raised" THEN Crash /\ cur' = cur ELSE DeviceDone
    /\ NoExport
    /\ UNCHANGED <<csv, csv_exists, ledger, diag, exclude_list, action_list, item_no,
                   hr_zones, tried, pwrites>>
    /\ KeepOthers

\* every column counts as active
is_column_active_always(a, column) == TRUE

\* csv_filter.is_column_active(name), lines 439-443, for the columns of a
\* lookup
is_column_active(a, column) == a[column]

\* lines 1185-1194: the samples, when the column sampleCount is active.
\* The answer is an HTTP error status (HTTPError, which line 1193 swallows:
\* extract['samples'] stays None), no connection (URLError, which http_req
\* raises again and nothing catches), an object with metricsCount
\* ("counted"), the empty object, or an object without metricsCount.
Samples ==
    /\ pc = "samples"
    /\ IF ~is_column_active(args, "samples")
       THEN /\ cur' = [cur EXCEPT !.samples = "None"]      \* line 1186
            /\ UNCHANGED files /\ overwrote' = {}
            /\ NoLookup
            /\ pc' = After("samples") /\ status' = status
       ELSE \E answer \in {"httperror", "unreachable", "counted", "empty", "nokey"} :
               /\ looked' = Lookup("samples", answer \in {"httperror", "unreachable"})
               /\ CASE answer = "httperror" ->                 \* line 1193
                         /\ cur' = [cur EXCEPT !.samples = "None"]
                         /\ UNCHANGED files /\ overwrote' = {}
                         /\ pc' = After("samples") /\ status' = status
                    [] answer = "unreachable" ->
                         /\ Crash
                         /\ UNCHANGED <<cur, files>> /\ overwrote' = {}
                    [] OTHER ->
                         LET w == write_to_file(files, FileName("samples", cur.id), "w")
                         IN  /\ files' = w.files
                             /\ overwrote' = w.overwrote
                             /\ cur' = [cur EXCEPT !.samples = answer]
                             /\ pc' = After("samples") /\ status' = status
    /\ NoExport
    /\ UNCHANGED <<csv, csv_exists, ledger, diag, exclude_list, action_list,
                   item_no, device_dict, hr_zones, tried, pwrites>>
    /\ KeepOthers

\* the answers to the gear request: a list with a gear or an empty list,
\* an HTTP error status (HTTPError) and no connection (URLError)
GearAnswers == {"gear", "nogear", "httperror", "unreachable"}

\* load_gear(activity_id, args), lines 728-744: "returned" (a name, or
\* None after an empty list or an HTTPError, which line 743 catches) or
\* "raised" (the URLError that http_req raises again, lines 227-230, is no
\* HTTPError)
load_gear(answer) ==
    CASE answer = "gear" -> [outcome |-> "returned", gear |-> "name"]
      [] answer = "nogear" -> [outcome |-> "returned", gear |-> "None"]
      [] answer = "httperror" -> [outcome |-> "returned", gear |-> "None"]
      [] OTHER -> [outcome |-> "raised", gear |-> "None"]

\* lines 1196-1198: load_gear, when the column gear is active; with
\* verbosity 0 it writes no file
Gear ==
    /\ pc = "gear"
    /\ IF ~is_column_active(args, "gear")
       THEN NoLookup /\ pc' = After("gear") /\ status' = status
       ELSE \E answer \in GearAnswers :
               /\ looked' = Lookup("gear", answer \in {"httperror", "unreachable"})
               /\ IF load_gear(answer).outcome = "raised" THEN Crash
                  ELSE pc' = After("gear") /\ status' = status
    /\ overwrote' = {}
    /\ NoExport
    /\ UNCHANGED <<dirVars, ledger, diag, exclude_list, action_list, item_no,
                   cur, device_dict, hr_zones, tried, pwrites>>
    /\ KeepOthers

\* the zone numbers a hrTimeInZones answer may hold
ZoneAnswers == {{}, {1, 2}, {3, 4, 5}, 1..5}

\* load_zones(activity_id, ...), lines 702-725, given the slots of
\* HR_ZONES_EMPTY that are set and the zone numbers of the answer: the slots
\* of the list it returns that are set, and those of HR_ZONES_EMPTY
\* afterwards.  zones is the list HR_ZONES_EMPTY itself (line 712), not a
\* copy, so the slots set for one activity stay set for the next ones.
load_zones(empty, zones_raw) ==
    LET zones == empty                  \* line 712
        filled == zones \cup zones_raw  \* lines 719-724
    IN  [zones |-> filled, empty |-> filled]

\* lines 1200-1202: load_zones, when a zone column is active
Zones ==
    /\ pc = "zones"
    /\ IF ~is_column_active(args, "zones")
       THEN UNCHANGED <<files, hr_zones>> /\ overwrote' = {}
            /\ NoLookup
            /\ pc' = After("zones") /\ status' = status
       ELSE \E error \in BOOLEAN : \E zs \in ZoneAnswers :
               /\ looked' = Lookup("zones", error)
               /\ IF error
                  THEN Crash /\ UNCHANGED <<files, hr_zones>> /\ overwrote' = {}
                  ELSE LET w == write_to_file(files, FileName("zones", cur.id), "w")
                       IN  /\ files' = w.files
                           /\ overwrote' = w.overwrote
                           /\ hr_zones' = load_zones(hr_zones, zs).empty
                           /\ pc' = After("zones") /\ status' = status
    /\ NoExport
    /\ UNCHANGED <<csv, csv_exists, ledger, diag, exclude_list, action_list, item_no,
                   cur, device_dict, tried, pwrites>>
    /\ KeepOthers

---------------------------------------------------------------------------
\* export_data_file and csv_write_record (export.py)

\* lines 778-796: the extension of data_filename
DataKind(format) ==
    CASE format = "gpx" -> "gpx"
      [] format = "tcx" -> "tcx"
      [] format = "original" -> "zip"
      [] OTHER -> "json"

\* the existence tests of lines 798 and 803 left out
AlreadyExportedNever(fs, format, id) == FALSE

\* lines 798-806: the data file exists, or (format original) a file with
\* the same base name and the extension .fit, .gpx or .tcx
AlreadyExported(fs, format, id) ==
    \/ FileName(DataKind(format), id) \in fs
    \/ /\ format = "original"
       /\ \E k \in {"fit", "gpx", "tcx"} : FileName(k, id) \in fs

\* the outcome of export_data_file: what it returned ("True", "False") or
\* "raised", the files and the ledger afterwards, the existing files it
\* truncated, whether it requested the download and wrote the data file
Exported(result, fs, led, over, req, written) ==
    [result |-> result, files |-> fs, ledger |-> led, overwrote |-> over,
     requested |-> req, written |-> written]

\* lines 827-847: the ZIP file is unzipped and removed, when --unzip
Unzipped(fs, format, unzip, id, answer) ==
    IF format = "original" /\ unzip
    THEN (fs \ {FileName("zip", id)})
         \cup (IF answer = "data" THEN {FileName("fit", id)} ELSE {})
    ELSE fs

\* a failed download is never raised: an empty file is written
DownloadRaisesNever(format, answer) == FALSE

\* lines 808-819: the download is requested unless the format is json;
\* http_req (lines 221-243) raises when the request fails (HTTPError,
\* URLError, a status other than 200 and 204), and lines 811-817 raise an
\* HTTPError again, as args.format is never '.tcx'
DownloadRaises(format, answer) == format # "json" /\ answer = "error"

\* export_data_file(activity_id, activity_details, args, ...), lines
\* 747-849.  answer is the answer to the download request: "data", "empty"
\* (status 204, http_req returns b'') or "error".
export_data_file(fs, led, format, unzip, id, answer) ==
    IF AlreadyExported(fs, format, id)
    THEN Exported("False", fs, led, {}, FALSE, FALSE)
    ELSE IF DownloadRaises(format, answer)
    THEN Exported("raised", fs, led, {}, TRUE, FALSE)
    ELSE LET w == write_to_file(fs, FileName(DataKind(format), id),
                                IF format = "original" THEN "wb" ELSE "w")
             u == update_download_stats(led, Str(id))
         IN  IF w.raised
             THEN Exported("raised", fs, led, {}, format # "json", FALSE)
             ELSE IF u.raised
             THEN Exported("raised", w.files, u.ledger, w.overwrote, format # "json", TRUE)
             ELSE Exported("True", Unzipped(w.files, format, unzip, id, answer),
                           u.ledger, w.overwrote, format # "json", TRUE)

\* n + 1, not beyond 2
Bump(n) == IF n < 2 THEN n + 1 ELSE 2

\* line 1205: export_data_file for the current item
ExportDataFile ==
    /\ pc = "export"
    /\ \E answer \in IF args.format = "json" THEN {"data"} ELSE {"data", "empty", "error"} :
          LET e == export_data_file(files, ledger, args.format, args.unzip, cur.id, answer)
          IN  /\ files' = e.files
              /\ ledger' = e.ledger
              /\ overwrote' = e.overwrote
              /\ export_result' = e.result
              /\ requested' = e.requested
              /\ answered' = IF e.requested THEN answer ELSE "none"
              /\ NoLookup
              /\ tried' = IF e.requested /\ answer = "error" THEN tried
                          ELSE [tried EXCEPT ![cur.id] = Bump(@)]
              /\ pwrites' = IF e.written THEN [pwrites EXCEPT ![cur.id] = Bump(@)]
                            ELSE pwrites
              /\ CASE e.result = "True" ->
                        pc' = After("export") /\ item_no' = item_no /\ status' = status
                   [] e.result = "False" -> NextItem
                   [] OTHER -> Crash /\ item_no' = item_no
    /\ UNCHANGED <<csv, csv_exists, diag, exclude_list, action_list, cur, device_dict, hr_zones>>
    /\ KeepOthers

\* csv_write_record(csv_filter, extract, activity, details, ...), lines
\* 546-656, raises before write_row when
\* extract['start_time_with_offset'] cannot give its UTC offset (line 568:
\* isoformat()), and when present() (lines 283-289) is
\* given None or a non-empty object without the key: for the details (see
\* ItemDetails) and, at line 654, for extract['samples'] (None: TypeError,
\* without metricsCount: KeyError), and when a slot of extract['hrZones']
\* is None (lines 614-623: TypeError)
csv_write_record_raises(c, zones) ==
    \/ isoformat_raises(c.start)                \* line 568
    \/ c.raises
    \/ c.samples \in {"None", "nokey"}
    \/ zones # 1..5

\* line 1206: csv_write_record for the current item
CsvWriteRecord ==
    /\ pc = "record"
    /\ IF csv_write_record_raises(cur, hr_zones)
       THEN Crash /\ UNCHANGED <<csv, item_no>>
       ELSE csv' = Append(csv, CsvRow(cur.id)) /\ NextItem
    /\ overwrote' = {}
    /\ UNCHANGED <<files, csv_exists, ledger, diag, exclude_list, action_list, tried, pwrites>>
    /\ KeepItem /\ KeepOthers

\* lines 1208-1215: the end of the loop
Finish ==
    /\ pc = "item" /\ item_no >= Len(action_list)
    /\ pc' = "idle"
    /\ status' = "done"
    /\ overwrote' = {}
    /\ UNCHANGED <<dirVars, ledger, diag, exclude_list, action_list, item_no, tried, pwrites>>
    /\ KeepItem /\ KeepOthers

---------------------------------------------------------------------------
\* Runs of main, one after the other, on one export directory

\* The templates: each is the set of the lookups whose columns it holds.
Templates == {{"device", "gear", "zones", "samples"}, {},
              {"gear", "zones"}, {"device", "samples"}}

\* the command lines
ArgsSet ==
    {[format |-> f, unzip |-> u, start |-> s, exclude |-> x,
      zones |-> "zones" \in t, samples |-> "samples" \in t,
      gear |-> "gear" \in t, device |-> "device" \in t] :
        f \in {"gpx", "tcx", "original", "json"}, u \in BOOLEAN, s \in 1..2,
        x \in {ExcludeFile("none", {}), ExcludeFile("notfound", {}),
               ExcludeFile("invalid", {}), ExcludeFile("noids", {}),
               ExcludeFile("valid", {Str(8)})},
        t \in Templates}

Init ==
    /\ args \in {a \in ArgsSet : a.unzip => a.format = "original"}
    /\ dir0 \in {"new", "exported"}
    /\ IF dir0 = "new"
       THEN /\ files = {} /\ csv = <<>> /\ csv_exists = FALSE
            /\ InitLedgerVars({AbsentLedger})
            /\ pwrites = [a \in ServerIds |-> 0]
       \* the directory of an earlier export of activity 8 with --format gpx
       ELSE /\ files = {FileName("gpx", 8), FileName("userstats", 0), FileName("list", 1)}
            /\ csv = <<CsvHeader, CsvRow(8)>>
            /\ csv_exists = TRUE
            /\ InitLedgerVars({IdsLedger(<<Str(8)>>)})
            /\ pwrites = [a \in ServerIds |-> IF a = 8 /\ args.format = "gpx" THEN 1 ELSE 0]
    /\ pc = "idle"
    /\ status = "none"
    /\ diag = "none"
    /\ exclude_list = {}
    /\ action_list = <<>>
    /\ item_no = 0
    /\ cur = NoCur
    /\ device_dict = <<>>
    /\ hr_zones = {}
    /\ export_result = "none"
    /\ requested = FALSE
    /\ answered = "none"
    /\ looked = Lookup("none", FALSE)
    /\ overwrote = {}
    /\ tried = [a \in ServerIds |-> 0]
    /\ InitAnnotateIdle /\ InitDetailsIdle /\ InitMultiIdle /\ InitUnitsIdle

\* The runs of main.  Line 1166 raises for every item marked download
\* (FixedOffset has no utcoffset), which ends the run there: the statements
\* of lines 1173-1206 are never reached.
Next ==
    \/ StartRun
    \/ ReadExclude
    \/ Login
    \/ OpenCsv
    \/ FetchUserstats
    \/ FetchActivityList
    \/ SkipItem
    \/ ItemDetails
    \/ Finish

Spec == Init /\ [][Next]_vars

\* The runs of main with the rest of the body of the loop: what lines
\* 1173-1206 do when start_time_with_offset can be formatted.  The
\* properties of these statements are checked under SpecBody.
NextBody ==
    \/ StartRun
    \/ ReadExclude
    \/ Login
    \/ OpenCsv
    \/ FetchUserstats
    \/ FetchActivityList
    \/ SkipItem
    \/ ItemDetailsFormattable
    \/ ExtractDevice
    \/ Samples
    \/ Gear
    \/ Zones
    \/ ExportDataFile
    \/ CsvWriteRecord
    \/ Finish

SpecBody == Init /\ [][NextBody]_vars

---------------------------------------------------------------------------
\* Properties of the runs of main

\* the number of lines of activities.csv for an activity
RowsOf(a) == Cardinality({i \in 1..Len(csv) : csv[i] = CsvRow(a)})

\* s is an initial part of t
IsPrefix(s, t) == Len(s) <= Len(t) /\ SubSeq(t, 1, Len(s)) = s

\* the primary data file of the current item exists, or (format original) a
\* file extracted from it
PrimaryExists ==
    \/ FileName(DataKind(args.format), cur.id) \in files
    \/ /\ args.format = "original"
       /\ \E k \in {"fit", "gpx", "tcx"} : FileName(k, cur.id) \in files

\* C1: when the per-activity export step (export_data_file, then
\* csv_write_record if it returned True) has run twice for an activity on a
\* directory that was new, with download answers that were not errors, the
\* primary file has been written exactly once and activities.csv holds
\* exactly one row of the activity.
C1_ExportStepIdempotent ==
    \A a \in ServerIds :
        (dir0 = "new" /\ tried[a] = 2 /\ ~(pc = "record" /\ cur.id = a))
            => (pwrites[a] = 1 /\ RowsOf(a) = 1)

C3_SkipExisting ==
    [][(pc = "export" /\ PrimaryExists) =>
          /\ export_result' = "False"
          /\ requested' = FALSE
          /\ files' = files
          /\ ledger' = ledger
          /\ csv' = csv
          /\ status' = status
          /\ pc' = "item" /\ item_no' = item_no + 1]_vars

\* a run has skipped an activity whose data file and row an earlier run
\* has written
C3_Witness ==
    /\ export_result = "False"
    /\ dir0 = "new"
    /\ pwrites[cur.id] = 1
    /\ RowsOf(cur.id) = 1

---------------------------------------------------------------------------
\* fetch_multisports: a parent without a child ID list

\* the details of the page entry i arrive with a summaryDTO and hold no
\* childIds (no metadataDTO, or a metadataDTO without childIds)
NoChildIdList(i) ==
    /\ ms_page[i].typeKey = "multi_sport"
    /\ ms_server[ms_page[i].activityId] =
          DetailsAnswer("ok", "full", "multi_sport", FALSE, <<>>)

\* C11: when the details of the multisport parents of a page hold no child
\* ID list, fetch_multisports does not fail, inserts no children and leaves
\* the page as it was.
C11_NoChildIdsNoChildren ==
    (/\ ms_pc = "done"
     /\ \E i \in 1..Len(ms_page) : NoChildIdList(i)
     /\ \A i \in 1..Len(ms_page) :
           ms_page[i].typeKey = "multi_sport" => NoChildIdList(i))
        => ms_out = MsReturned(ms_page)

---------------------------------------------------------------------------
\* fetch_activity_list and fetch_activity_chunk (export.py)

LIMIT_MAXIMUM == 1000

\* largest total_to_download
MaxTotal == 2001

\* the window advanced by the number of summaries the chunk returned
AdvanceByReturned(downloaded, num, returned) == downloaded + returned

\* line 948: total_downloaded += num_to_download
Advance(downloaded, num, returned) == downloaded + num

\* lines 941-944: num_to_download
NumToDownload(total, downloaded) ==
    IF total - downloaded > LIMIT_MAXIMUM THEN LIMIT_MAXIMUM
    ELSE total - downloaded

\* a list request, lines 984-990, with what came of it: the number of
\* summaries in the answer and of the children fetch_multisports spliced in
ListRequest(start, limit, returned, spliced) ==
    [start |-> start, limit |-> limit, returned |-> returned, spliced |-> spliced]

\* the numbers of summaries the service may answer with to a list request
PageSizes(limit) == {0, limit} \cup (IF limit > 1 THEN {limit - 1} ELSE {})

\* the last chunk held fewer summaries than requested
LastShort(requests) ==
    /\ requests # <<>>
    /\ requests[Len(requests)].returned < requests[Len(requests)].limit

\* the loop that stops after a chunk with fewer summaries than requested
WhileMoreUnlessShort(total, downloaded, requests) ==
    downloaded < total /\ ~LastShort(requests)

\* line 940: while total_downloaded < total_to_download (the chunks fetched
\* so far are not looked at)
WhileMore(total, downloaded, requests) == downloaded < total

\* lines 940-948: one turn of the loop, with fetch_activity_chunk (lines
\* 975-999).  The request or fetch_multisports may raise.
FetchChunk ==
    /\ fl_pc = "loop"
    /\ WhileMore(fl_total, fl_downloaded, fl_requests)
    /\ LET num_to_download == NumToDownload(fl_total, fl_downloaded)
       IN  \E failed \in BOOLEAN :
             IF failed
             THEN /\ fl_requests' = Append(fl_requests,
                                       ListRequest(fl_downloaded, num_to_download, 0, 0))
                  /\ fl_pc' = "raised"
                  /\ UNCHANGED <<fl_downloaded, fl_got>>
             ELSE \E returned \in PageSizes(num_to_download), spliced \in 0..1 :
                  /\ fl_requests' = Append(fl_requests,
                        ListRequest(fl_downloaded, num_to_download, returned, spliced))
                  /\ fl_got' = fl_got + returned + spliced
                  /\ fl_downloaded' = Advance(fl_downloaded, num_to_download, returned)
                  /\ fl_pc' = fl_pc
    /\ UNCHANGED <<fl_total, ledgerVars, annotateVars, detailsVars, multiVars, mainVars,
                   listOthers>>

\* lines 950-953: the loop has ended and activities is returned
ListReturn ==
    /\ fl_pc = "loop"
    /\ ~WhileMore(fl_total, fl_downloaded, fl_requests)
    /\ fl_pc' = "done"
    /\ UNCHANGED <<fl_total, fl_downloaded, fl_requests, fl_got,
                   ledgerVars, annotateVars, detailsVars, multiVars, mainVars,
                   listOthers>>

InitList ==
    /\ fl_total \in 0..MaxTotal
    /\ fl_downloaded = 0
    /\ fl_requests = <<>>
    /\ fl_got = 0
    /\ fl_pc = "loop"
    /\ InitLedgerIdle /\ InitAnnotateIdle /\ InitDetailsIdle /\ InitMultiIdle
    /\ InitMainIdle /\ InitListOthers

NextList == FetchChunk \/ ListReturn

SpecList == InitList /\ [][NextList]_vars

\* n / d, rounded up
CeilDiv(n, d) == (n + d - 1) \div d

RECURSIVE SumOf(_, _)
\* the sum of the field f of the records of a sequence
SumOf(requests, f) ==
    IF requests = <<>> THEN 0
    ELSE requests[1][f] + SumOf(Tail(requests), f)

\* C12: every list request has 1 <= limit <= 1000, the first has start 0
\* and each later one starts at the previous start plus the previous limit,
\* however many summaries and spliced children the previous chunk held; for
\* every target count N the call ends after exactly ceil(N/1000) requests,
\* whose limits sum to N.
C12_PaginationWindows ==
    /\ \A k \in 1..Len(fl_requests) :
          /\ 1 <= fl_requests[k].limit /\ fl_requests[k].limit <= LIMIT_MAXIMUM
          /\ fl_requests[k].start =
                IF k = 1 THEN 0
                ELSE fl_requests[k - 1].start + fl_requests[k - 1].limit
    /\ fl_pc = "done" =>
          /\ Len(fl_requests) = CeilDiv(fl_total, LIMIT_MAXIMUM)
          /\ SumOf(fl_requests, "limit") = fl_total

\* three requests for more than 2000 activities, the first chunk short and
\* the second with a spliced child
C12_Witness ==
    /\ fl_pc = "done"
    /\ fl_total > 2 * LIMIT_MAXIMUM
    /\ Len(fl_requests) = 3
    /\ fl_requests[1].returned < fl_requests[1].limit
    /\ fl_requests[2].spliced = 1
    /\ fl_requests[3].start = 2 * LIMIT_MAXIMUM

\* C13: no list request follows a chunk that held fewer summaries than
\* requested.
C13_StopsOnShortPage ==
    \A k \in 1..(Len(fl_requests) - 1) :
        fl_requests[k].returned >= fl_requests[k].limit

\* C13 (amended): a chunk with fewer summaries than requested does not end
\* the pagination: as long as the windows requested so far do not cover
\* the target count, the next step is one more list request; the call
\* returns the summaries of all chunks.
C13_ShortPageGoesOn ==
    /\ (fl_pc = "loop" /\ LastShort(fl_requests) /\ fl_downloaded < fl_total)
          => (ENABLED FetchChunk /\ ~ENABLED ListReturn)
    /\ fl_pc = "done" =>
          fl_got = SumOf(fl_requests, "returned") + SumOf(fl_requests, "spliced")

\* the call has returned after a request that followed a short chunk
C13_Witness ==
    /\ fl_pc = "done"
    /\ Len(fl_requests) = 2
    /\ fl_requests[1].returned < fl_requests[1].limit
    /\ fl_got = fl_requests[1].returned + fl_requests[2].returned

\* C14: after any sequence of runs on the export directory, runs that
\* abort after opening activities.csv included, the file holds exactly one
\* header line, which is its first line.
C14_HeaderOnce ==
    (pc = "idle" /\ csv_exists) =>
        /\ Len(csv) >= 1
        /\ csv[1] = CsvHeader
        /\ \A i \in 2..Len(csv) : csv[i] # CsvHeader

---------------------------------------------------------------------------
\* CsvFilter and load_properties (export.py)

\* longest template file, in lines
MaxLines == 2

\* most lines written to the CSV file
MaxRows == 2

\* the keys csv_write_record may set
ColumnKeys == {"id", "distance", "gear"}

\* The cells of the CSV file and the values of set_column are written as
\* tuples: <<>> is None (or another false value, and an empty cell),
\* <<"value", key>> the string csv_write_record computes for a key, and
\* <<"header", key>> the header the template gives to a key.
NoValue == <<>>

ValueOf(key) == <<"value", key>>

\* the values csv_write_record may set for a key
ColumnValues(key) == {NoValue, ValueOf(key)}

\* A line of the template file: a comment ('#...'), or key=header.
CommentLine == [kind |-> "comment", key |-> "none"]

PairLine(key) == [kind |-> "pair", key |-> key]

HeaderOf(key) == <<"header", key>>

RECURSIVE PropertyKeys(_)
\* load_properties(multiline, keys=...), lines 253-273: the keys of the
\* lines that are no comments, in the order of the lines (keys.append)
PropertyKeys(lines) ==
    IF lines = <<>> THEN <<>>
    ELSE IF lines[1].kind = "pair"
         THEN <<lines[1].key>> \o PropertyKeys(Tail(lines))
         ELSE PropertyKeys(Tail(lines))

\* lines 411-415: __csv_columns and __csv_field_names of a template
CsvColumns(template) == PropertyKeys(template)

CsvFieldNames(template) ==
    [i \in 1..Len(CsvColumns(template)) |-> HeaderOf(CsvColumns(template)[i])]

\* set_column that stores the value of any key
set_column_unfiltered(template, row, name, value) ==
    IF value # NoValue THEN DictSet(row, HeaderOf(name), value) ELSE row

\* set_column(name, value), lines 431-437: the row afterwards
set_column(template, row, name, value) ==
    IF value # NoValue /\ InList(name, CsvColumns(template))
    THEN DictSet(row, HeaderOf(name), value)
    ELSE row

\* csv.DictWriter.writerow(row) with the default restval '' and
\* extrasaction 'raise': the cells of the line, or a ValueError when the
\* row holds a field that is not in fieldnames
DictWriterRow(fieldnames, row) ==
    IF \E h \in DOMAIN row : ~InList(h, fieldnames)
    THEN [raised |-> TRUE, cells |-> <<>>]
    ELSE [raised |-> FALSE,
          cells |-> [i \in 1..Len(fieldnames) |->
                        IF fieldnames[i] \in DOMAIN row THEN row[fieldnames[i]] ELSE NoValue]]

\* the other variables, which a CsvFilter does not touch
KeepFilterOthers == UNCHANGED <<ledgerVars, annotateVars, detailsVars, multiVars,
                                mainVars, filterOthers>>

\* write_header(), lines 420-424
WriteHeader ==
    /\ Len(cf_out) < MaxRows
    /\ cf_out' = Append(cf_out, [kind |-> "header", cells |-> CsvFieldNames(cf_template)])
    /\ cf_last' = [op |-> "write_header"]
    /\ cf_raised' = FALSE
    /\ UNCHANGED <<cf_template, cf_row>>
    /\ KeepFilterOthers

\* set_column(name, value)
SetColumn ==
    /\ \E name \in ColumnKeys : \E value \in ColumnValues(name) :
          /\ cf_row' = set_column(cf_template, cf_row, name, value)
          /\ cf_last' = [op |-> "set_column", name |-> name, value |-> value]
    /\ cf_raised' = FALSE
    /\ UNCHANGED <<cf_template, cf_out>>
    /\ KeepFilterOthers

\* write_row that keeps the row it has written
WriteRowNoReset ==
    /\ Len(cf_out) < MaxRows
    /\ LET w == DictWriterRow(CsvFieldNames(cf_template), cf_row)
       IN  /\ ~w.raised
           /\ cf_out' = Append(cf_out, [kind |-> "row", cells |-> w.cells])
    /\ cf_raised' = FALSE
    /\ cf_last' = [op |-> "write_row"]
    /\ UNCHANGED <<cf_template, cf_row>>
    /\ KeepFilterOthers

\* write_row(), lines 426-429
WriteRow ==
    /\ Len(cf_out) < MaxRows
    /\ LET w == DictWriterRow(CsvFieldNames(cf_template), cf_row)
       IN  IF w.raised
           THEN cf_raised' = TRUE /\ UNCHANGED <<cf_out, cf_row>>
           ELSE /\ cf_out' = Append(cf_out, [kind |-> "row", cells |-> w.cells])
                /\ cf_row' = <<>>
                /\ cf_raised' = FALSE
    /\ cf_last' = [op |-> "write_row"]
    /\ UNCHANGED cf_template
    /\ KeepFilterOthers

\* a CsvFilter made from a template file
InitFilter ==
    /\ cf_template \in SeqsUpTo({CommentLine} \cup {PairLine(k) : k \in ColumnKeys}, MaxLines)
    /\ cf_row = <<>>
    /\ cf_out = <<>>
    /\ cf_last = [op |-> "none"]
    /\ cf_raised = FALSE
    /\ InitLedgerIdle /\ InitAnnotateIdle /\ InitDetailsIdle /\ InitMultiIdle
    /\ InitMainIdle /\ InitFilterOthers

NextFilter == WriteHeader \/ SetColumn \/ WriteRow

SpecFilter == InitFilter /\ [][NextFilter]_vars

\* C15: the header and every row written have exactly the columns of the
\* keys of the template, in the order of the template: the header holds
\* their headers, and a row nothing under any other key; set_column with a
\* key that is not in the template changes nothing and does not fail.
C15_TemplateColumnsOnly ==
    /\ [](/\ ~cf_raised
          /\ \A i \in 1..Len(cf_out) :
                /\ Len(cf_out[i].cells) = Len(CsvColumns(cf_template))
                /\ (cf_out[i].kind = "header" =>
                      cf_out[i].cells = [k \in 1..Len(CsvColumns(cf_template)) |->
                                            HeaderOf(CsvColumns(cf_template)[k])])
          /\ \A h \in DOMAIN cf_row : \E k \in 1..Len(CsvColumns(cf_template)) :
                h = HeaderOf(CsvColumns(cf_template)[k]))
    /\ [][/\ ((\E name \in ColumnKeys : \E value \in ColumnValues(name) :
                 /\ cf_last' = [op |-> "set_column", name |-> name, value |-> value]
                 /\ ~InList(name, CsvColumns(cf_template)))
               => (cf_row' = cf_row /\ cf_out' = cf_out))
           /\ (cf_last'.op = "write_row") =>
                 cf_out' = Append(cf_out,
                    [kind |-> "row",
                     cells |-> [k \in 1..Len(CsvColumns(cf_template)) |->
                                  IF HeaderOf(CsvColumns(cf_template)[k]) \in DOMAIN cf_row
                                  THEN cf_row[HeaderOf(CsvColumns(cf_template)[k])]
                                  ELSE NoValue]])]_vars

\* a template with only id and distance, after a comment line or not; a
\* record on which gear was set too has been written as a row of two cells
C15_Witness ==
    /\ CsvColumns(cf_template) = <<"id", "distance">>
    /\ cf_last.op = "write_row"
    /\ Len(cf_out) = 2
    /\ cf_out[1].kind = "header"
    /\ cf_out[1].cells = <<HeaderOf("id"), HeaderOf("distance")>>
    /\ cf_out[2].kind = "row"
    /\ cf_out[2].cells = <<ValueOf("id"), ValueOf("distance")>>

---------------------------------------------------------------------------
\* present and csv_write_record (export.py)

\* How an object act stands to a key element:
\*   "None"   act is None
\*   "empty"  act is the empty object
\*   "lacks"  act is a non-empty object without the key
\*   "null"   act holds the key with the value null
\*   "value"  act holds the key with a value
ObjShapes == {"None", "empty", "lacks", "null", "value"}

PresentReturned(value) == [raised |-> FALSE, error |-> "none", value |-> value]

PresentRaised(error) == [raised |-> TRUE, error |-> error, value |-> FALSE]

\* present(element, act), lines 283-289:
\*     if not act and element not in act: return False
\*     return act[element]
present(act) ==
    IF act \in {"None", "empty"}                          \* not act
    THEN IF act = "None" THEN PresentRaised("TypeError")  \* element not in None
         ELSE PresentReturned(FALSE)
    ELSE IF act = "lacks" THEN PresentRaised("KeyError")  \* act[element]
         ELSE PresentReturned(act = "value")

\* What csv_write_record is given, as far as its optional fields go:
\*   activity     the summary (never empty: it holds activityId) and its
\*                key description
\*   summaryDTO   details['summaryDTO'] and its key movingDuration
\*   hrZones      the slots of extract['hrZones'] that are set (the others
\*                are None)
\*   metadataDTO  details['metadataDTO'] and its key fileFormat
\*   samples      extract['samples'] and its key metricsCount
RecordInputs ==
    [activity : {"lacks", "null", "value"},
     summaryDTO : {"empty", "lacks", "null", "value"},
     hrZones : SUBSET (1..5),
     metadataDTO : ObjShapes,
     samples : ObjShapes]

WrRaised(error, line) == [outcome |-> "raised", error |-> error, line |-> line]

WrWritten(row) == [outcome |-> "written", row |-> row]

\* the first zone slot, in the order of lines 614-623, that is None
FirstEmptySlot(zones) == CHOOSE k \in (1..5) \ zones : \A j \in (1..5) \ zones : k <= j

\* csv_write_record(csv_filter, extract, activity, details, ...), lines
\* 546-656: the columns are computed in the order of the lines, and
\* write_row (line 656) is reached when none of them raises.  The row is
\* given by the columns that are set.
csv_write_record(in) ==
    LET description == present(in.activity)         \* line 567
        movingDuration == present(in.summaryDTO)    \* line 579
        fileFormat == present(in.metadataDTO)       \* line 642
        sampleCount == present(in.samples)          \* line 654
    IN  IF description.raised THEN WrRaised(description.error, 567)
        ELSE IF movingDuration.raised THEN WrRaised(movingDuration.error, 579)
        \* lines 614-623: present('zoneLowBoundary', None)
        ELSE IF in.hrZones # 1..5 THEN WrRaised("TypeError", 612 + 2 * FirstEmptySlot(in.hrZones))
        ELSE IF fileFormat.raised THEN WrRaised(fileFormat.error, 642)
        ELSE IF sampleCount.raised THEN WrRaised(sampleCount.error, 654)
        ELSE WrWritten([description |-> description.value,
                        movingDuration |-> movingDuration.value,
                        hrZoneLow |-> in.hrZones,
                        fileFormat |-> fileFormat.value,
                        sampleCount |-> sampleCount.value])

\* a call of csv_write_record
CsvWriteRecordCall ==
    /\ wr_pc = "idle"
    /\ wr_out' = csv_write_record(wr_in)
    /\ wr_pc' = "done"
    /\ UNCHANGED <<wr_in, ledgerVars, annotateVars, detailsVars, multiVars, mainVars,
                   recordOthers>>

InitRecord ==
    /\ wr_in \in RecordInputs
    /\ wr_out = [outcome |-> "none"]
    /\ wr_pc = "idle"
    /\ InitLedgerIdle /\ InitAnnotateIdle /\ InitDetailsIdle /\ InitMultiIdle
    /\ InitMainIdle /\ InitRecordOthers

NextRecord == CsvWriteRecordCall

SpecRecord == InitRecord /\ [][NextRecord]_vars

\* C16: whichever optional fields are absent (key missing or value null,
\* zone slots that are None and samples that is None included),
\* csv_write_record does not raise and writes a row in which the columns
\* of the absent fields are empty.
C16_MissingFieldsTolerated ==
    wr_pc = "done" =>
        /\ wr_out.outcome = "written"
        /\ wr_out.row.description = (wr_in.activity = "value")
        /\ wr_out.row.movingDuration = (wr_in.summaryDTO = "value")
        /\ wr_out.row.hrZoneLow = wr_in.hrZones
        /\ wr_out.row.fileFormat = (wr_in.metadataDTO = "value")
        /\ wr_out.row.sampleCount = (wr_in.samples = "value")

---------------------------------------------------------------------------
\* extract_device over the activities of one run (export.py)

\* most activities of a run
MaxActivities == 3

\* the installation IDs of the devices
DeviceIds == {1, 2}

\* what the details of an activity may hold of its device
DeviceShapes ==
    {Dev("nometa", 0), Dev("noinst", 0)}
    \cup {Dev(k, i) : k \in {"metanull", "unknown", "known"}, i \in DeviceIds}

\* extract_device for the next activity of the run (main, line 1183); an
\* exception ends the run
ExtractDeviceCall ==
    /\ dv_pc = "run"
    /\ dv_calls < MaxActivities
    /\ \E dev \in DeviceShapes, answer \in DeviceAnswers :
          LET x == extract_device(dv_dict, dev, answer)
          IN  /\ dv_dict' = x.dict
              /\ dv_reqs' = IF x.requested
                            THEN [dv_reqs EXCEPT ![dev.inst] = @ + 1]
                            ELSE dv_reqs
              /\ dv_last' = [outcome |-> x.outcome, inst |-> dev.inst,
                             known |-> dev.inst \in DOMAIN dv_dict,
                             before |-> IF dev.inst \in DOMAIN dv_dict
                                        THEN dv_dict[dev.inst] ELSE "None",
                             value |-> x.value, requested |-> x.requested,
                             wrote |-> x.wrote]
              /\ dv_pc' = IF x.outcome = "raised" THEN "crashed" ELSE "run"
    /\ dv_calls' = dv_calls + 1
    /\ UNCHANGED <<ledgerVars, annotateVars, detailsVars, multiVars, mainVars,
                   deviceOthers>>

\* main, line 1121: device_dict = dict()
InitDevice ==
    /\ dv_dict = <<>>
    /\ dv_reqs = [i \in DeviceIds |-> 0]
    /\ dv_calls = 0
    /\ dv_last = [outcome |-> "none"]
    /\ dv_pc = "run"
    /\ InitLedgerIdle /\ InitAnnotateIdle /\ InitDetailsIdle /\ InitMultiIdle
    /\ InitMainIdle /\ InitDeviceOthers

NextDevice == ExtractDeviceCall

SpecDevice == InitDevice /\ [][NextDevice]_vars

\* C17: in one run at most one device request is made per installation
\* ID, and an activity whose installation ID an earlier activity of the
\* run has had gets the cached value, with no request and no file written.
C17_DeviceCache ==
    /\ \A i \in DeviceIds : dv_reqs[i] <= 1
    /\ (dv_last.outcome # "none" /\ dv_last.inst \in DeviceIds /\ dv_last.known) =>
          /\ dv_last.outcome = "returned"
          /\ dv_last.value = dv_last.before
          /\ ~dv_last.requested
          /\ ~dv_last.wrote

\* the third activity has the device of the first, whose name was fetched,
\* after an activity with another device
C17_Witness ==
    /\ dv_calls = 3
    /\ dv_reqs = [i \in DeviceIds |-> 1]
    /\ dv_last.outcome = "returned" /\ dv_last.known
    /\ dv_last.value = "name"
    /\ ~dv_last.requested

---------------------------------------------------------------------------
\* Properties of the lookups of main

C20_GearErrorNonFatal ==
    [][(looked'.what = "gear" /\ looked'.failed) =>
          (pc' = "zones" /\ status' = status)]_vars

---------------------------------------------------------------------------
\* load_zones over the activities of one run (export.py)

\* load_zones for the next activity of the run (main, line 1202); the
\* answer holds any of the zone numbers 1..5, or none
LoadZonesCall ==
    /\ hz_calls < MaxActivities
    /\ \E zones_raw \in SUBSET (1..5) :
          LET z == load_zones(hz_global, zones_raw)
          IN  /\ hz_global' = z.empty
              /\ hz_last' = [outcome |-> "returned", raw |-> zones_raw, zones |-> z.zones]
    /\ hz_calls' = hz_calls + 1
    /\ UNCHANGED <<ledgerVars, annotateVars, detailsVars, multiVars, mainVars,
                   zonesOthers>>

\* line 71: HR_ZONES_EMPTY = [None]*5
InitZones ==
    /\ hz_global = {}
    /\ hz_calls = 0
    /\ hz_last = [outcome |-> "none"]
    /\ InitLedgerIdle /\ InitAnnotateIdle /\ InitDetailsIdle /\ InitMultiIdle
    /\ InitMainIdle /\ InitZonesOthers

NextZones == LoadZonesCall

SpecZones == InitZones /\ [][NextZones]_vars

\* C19: in the list load_zones returns for an activity, slot k-1 is set iff
\* the answer for that activity holds zone number k; the other slots are
\* None, whatever the zones of the activities before it.
C19_ZonesOfOwnAnswer ==
    hz_last.outcome = "returned" => hz_last.zones = hz_last.raw

---------------------------------------------------------------------------
\* The samples request that fails (main, lines 1185-1194)

\* C21: when the column sampleCount is active and the samples request of the
\* activity has failed with an HTTP error (extract['samples'] is None), the
\* run goes on: once the primary file is written, the CSV row of the
\* activity is appended (nothing else of the activity makes
\* csv_write_record raise).
C21_SampleFailureSwallowed ==
    [][(/\ pc = "record"
        /\ is_column_active(args, "samples") /\ cur.samples = "None"
        /\ ~cur.raises /\ hr_zones = 1..5)
       => (csv' = Append(csv, CsvRow(cur.id)) /\ status' = status)]_vars

---------------------------------------------------------------------------
\* The order of the ledger update and the CSV row (main, lines 1204-1206)

---------------------------------------------------------------------------
\* The lookups and the existence of the primary file (main, lines 1183-1206)

\* the steps of the lookups
LookupSteps == {"device", "samples", "gear", "zones"}

---------------------------------------------------------------------------
\* The loop over the annotated list, item by item (main, lines 1135-1206)

\* the steps of the body of the loop after the details
BodySteps == LookupSteps \cup {"export", "record"}

\* C24: the items are processed one after the other in the order of the
\* list: every step of the body works on the item at the position of the
\* loop, which is marked download, and the position never goes back; the
\* files a step writes are those of that item; a row is appended only by
\* csv_write_record, for that item; an item marked skip or exclude causes
\* no details request, no lookup, no download, no file write, no row and
\* no ledger update.
C24_SequentialInListOrder ==
    /\ [](pc \in BodySteps =>
             /\ item_no < Len(action_list)
             /\ action_list[item_no + 1].action = "d"
             /\ cur.id = action_list[item_no + 1].activity)
    /\ [][/\ pc \in BodySteps \cup {"item"} => item_no' \in {item_no, item_no + 1}
          /\ (pc \in BodySteps /\ item_no' = item_no + 1) => pc \in {"export", "record"}
          /\ pc \in BodySteps =>
                \A n \in files' \ files :
                    \/ n.id = cur.id
                    \/ n.kind = "device" /\ n.id = cur.dev.inst
          /\ (csv' # csv /\ pc # "csv") =>
                /\ pc = "record"
                /\ csv' = Append(csv, CsvRow(action_list[item_no + 1].activity))
                /\ item_no' = item_no + 1
          /\ (/\ pc = "item" /\ item_no < Len(action_list)
              /\ action_list[item_no + 1].action \in {"s", "e"}) =>
                /\ cur' = cur /\ looked'.what = "none" /\ requested' = FALSE
                /\ files' = files /\ csv' = csv /\ ledger' = ledger
                /\ pc' = "item" /\ item_no' = item_no + 1]_vars

\* one run on a new directory has appended the rows of the two activities
\* of the list, in the order of the list
C24_Witness ==
    /\ dir0 = "new"
    /\ status = "done"
    /\ \A a \in ServerIds : tried[a] = 1
    /\ Len(action_list) = 2
    /\ csv = <<CsvHeader, CsvRow(action_list[1].activity),
               CsvRow(action_list[2].activity)>>

---------------------------------------------------------------------------
\* The download of the primary file that fails (export_data_file, 808-825)

---------------------------------------------------------------------------
\* The ledger and the primary files (export_data_file, lines 798-825)

\* C30: export_data_file adds the ID of an activity to the ledger only in
\* the call that has written its primary data file: the file did not exist,
\* the download did not fail, the file is there afterwards and the call
\* returns True; so on a directory that was new every ID of the ledger is
\* that of an activity whose primary file was written and is there.
C30_LedgerOnlyWrittenFiles ==
    /\ [](dir0 = "new" =>
             \A i \in 1..Len(ledger.ids) :
                \E a \in ServerIds :
                    /\ ledger.ids[i] = Str(a)
                    /\ pwrites[a] >= 1
                    /\ \E k \in PrimaryKinds : FileName(k, a) \in files)
    /\ [][ledger' # ledger =>
             /\ pc = "export"
             /\ ~PrimaryExists
             /\ answered' # "error"
             /\ export_result' = "True"
             /\ FileName(DataKind(args.format), cur.id) \in files'
             /\ pwrites'[cur.id] = pwrites[cur.id] + 1
             /\ ledger'.ids = AppendId(ledger.ids, Str(cur.id))]_vars

\* on a directory that was new the ledger holds the ID of the activity that
\* was written, and not the ID of the one whose download has failed
C30_Witness ==
    /\ dir0 = "new"
    /\ answered = "error" /\ export_result = "raised"
    /\ ~InList(Str(cur.id), ledger.ids)
    /\ \E a \in ServerIds :
          /\ a # cur.id
          /\ InList(Str(a), ledger.ids)
          /\ FileName("gpx", a) \in files

---------------------------------------------------------------------------
\* The row a CsvFilter assembles (CsvFilter.set_column, CsvFilter.write_row)

\* C26: set_column leaves the current row as it is when the value is empty
\* or None or the column is not active, and else sets the value of the
\* column; write_row writes a line with exactly the values of the current
\* row, an empty cell for every other column, and then the current row is
\* empty: no value set before a write_row is in the line of a later one.
C26_RowAssembly ==
    /\ []((cf_last.op = "write_row" /\ ~cf_raised) => cf_row = <<>>)
    /\ [][/\ cf_last'.op = "set_column" =>
                /\ cf_out' = cf_out
                /\ IF \/ cf_last'.value = NoValue
                      \/ ~InList(cf_last'.name, CsvColumns(cf_template))
                   THEN cf_row' = cf_row
                   ELSE cf_row' = DictSet(cf_row, HeaderOf(cf_last'.name), cf_last'.value)
          /\ cf_last'.op = "write_row" =>
                LET names == CsvFieldNames(cf_template)
                IN  /\ ~cf_raised'
                    /\ Len(cf_out') = Len(cf_out) + 1
                    /\ cf_out'[Len(cf_out')].kind = "row"
                    /\ Len(cf_out'[Len(cf_out')].cells) = Len(names)
                    /\ \A i \in 1..Len(names) :
                          cf_out'[Len(cf_out')].cells[i] =
                              IF names[i] \in DOMAIN cf_row THEN cf_row[names[i]]
                              ELSE NoValue
                    /\ cf_row' = <<>>]_vars

\* two rows were written: the first with a value in its first column, the
\* second, for which the column was not set, with that cell empty
C26_Witness ==
    /\ Len(cf_out) = 2
    /\ cf_out[1].kind = "row" /\ cf_out[2].kind = "row"
    /\ Len(cf_out[1].cells) >= 1
    /\ cf_out[1].cells[1] # NoValue
    /\ cf_out[2].cells[1] = NoValue
    /\ cf_last.op = "write_row"

---------------------------------------------------------------------------
\* Formatting functions (export.py): offset_date_time,
\* pace_or_speed_formatted, hhmmss_from_seconds.  A text is the sequence of
\* its characters.

\* latest hour of the day of a timestamp
MaxHour == 23

\* highest speed, in tenths of a metre per second
MaxSpeed == 120

\* longest duration, in hours
MaxHours == 25

DigitChars == <<"0", "1", "2", "3", "4", "5", "6", "7", "8", "9">>

\* str(n) and '{:d}'.format(n), n >= 0
Text(n) == [i \in 1..Len(Str(n)) |-> DigitChars[Str(n)[i] + 1]]

\* '{:02d}'.format(n), n >= 0
Pad2(n) == IF n < 10 THEN <<"0">> \o Text(n) ELSE Text(n)

\* the characters of a string literal, for the fixed texts
Chars(w) ==
    CASE w = ", " -> <<",", " ">>
      [] w = " day" -> <<" ", "d", "a", "y">>
      [] w = " days" -> <<" ", "d", "a", "y", "s">>
      [] w = "0.000" -> <<"0", ".", "0", "0", "0">>

\* ---- offset_date_time (defined with main above) ----

\* the timestamps: the seconds of the day, on two days
TimesOfDay == {86400 * d + 3600 * h + s : d \in 0..1, h \in 0..MaxHour, s \in {0, 30}}

\* the outcome of a call that has returned
Returned(value) == [outcome |-> "returned", value |-> value]

OffsetDateTimeCall ==
    /\ fmt_in.fn = "offset_date_time" /\ fmt_out.outcome = "none"
    /\ fmt_out' = Returned(offset_date_time(fmt_in.time_local, fmt_in.time_gmt))
    /\ UNCHANGED <<fmt_in, ledgerVars, annotateVars, detailsVars, multiVars, mainVars,
                   formatOthers>>

\* ---- pace_or_speed_formatted ----

\* line 69
USES_PACE == {1, 3, 9, 26}

\* the quotient p / q cut off (int()) instead of rounded
round_down(p, q) == p \div q

\* round(p / q) for p >= 0, q > 0: the nearest integer, the even one of two
round(p, q) ==
    LET f == p \div q
        r2 == 2 * (p % q)
    IN  IF r2 < q THEN f
        ELSE IF r2 > q THEN f + 1
        ELSE IF f % 2 = 0 THEN f ELSE f + 1

\* pace_or_speed_formatted(type_id, parent_type_id, mps), lines 391-399,
\* for a speed of n tenths of a metre per second, in exact arithmetic:
\* kmh = 3.6 * mps = 36n/100, 3600/kmh = 10000/n
pace_or_speed_formatted(type_id, parent_type_id, n) ==
    IF type_id \in USES_PACE \/ parent_type_id \in USES_PACE
    THEN LET secs == round(10000, n)                         \* int(round(3600/kmh))
         IN  Pad2(secs \div 60) \o <<":">> \o Pad2(secs % 60)   \* divmod(.., 60)
    ELSE LET tenths == round(36 * n, 10)                     \* round(kmh, 1)
         IN  Text(tenths \div 10) \o <<".">> \o Text(tenths % 10)  \* '{0:.1f}'

\* the type IDs of the calls
TypeIds == USES_PACE \cup {2, 4, 17}

PaceOrSpeedCall ==
    /\ fmt_in.fn = "pace_or_speed_formatted" /\ fmt_out.outcome = "none"
    /\ fmt_out' = Returned(pace_or_speed_formatted(fmt_in.type_id, fmt_in.parent_type_id,
                                                   fmt_in.mps10))
    /\ UNCHANGED <<fmt_in, ledgerVars, annotateVars, detailsVars, multiVars, mainVars,
                   formatOthers>>

\* ---- hhmmss_from_seconds ----

\* str(timedelta(seconds=x)), x >= 0: '[D day[s], ]H:MM:SS'
timedelta_str(x) ==
    LET days == x \div 86400
        rest == x % 86400
        hms == Text(rest \div 3600) \o <<":">> \o Pad2((rest % 3600) \div 60)
               \o <<":">> \o Pad2(rest % 60)
    IN  IF days = 0 THEN hms
        ELSE Text(days) \o Chars(IF days = 1 THEN " day" ELSE " days")
             \o Chars(", ") \o hms

\* str.zfill(width)
zfill(text, width) ==
    IF Len(text) >= width THEN text
    ELSE [i \in 1..(width - Len(text)) |-> "0"] \o text

\* hhmmss_from_seconds(sec), lines 150-158; sec is [kind |-> "int", x |-> x]
\* or another value that is no float and no int
hhmmss_from_seconds(sec) ==
    IF sec.kind = "int" THEN zfill(timedelta_str(sec.x), 8)
    ELSE Chars("0.000")

\* the durations: whole seconds up to MaxHours hours, and values that are
\* no numbers
Durations ==
    {[kind |-> "int", x |-> 3600 * h + 60 * m + s] :
        h \in 0..MaxHours, m \in {0, 1, 59}, s \in {0, 1, 59}}
    \cup {[kind |-> k, x |-> 0] : k \in {"str", "None"}}

HhmmssCall ==
    /\ fmt_in.fn = "hhmmss_from_seconds" /\ fmt_out.outcome = "none"
    /\ fmt_out' = Returned(hhmmss_from_seconds(fmt_in.sec))
    /\ UNCHANGED <<fmt_in, ledgerVars, annotateVars, detailsVars, multiVars, mainVars,
                   formatOthers>>

\* the calls: a function with its arguments
FormatCalls ==
    {[fn |-> "offset_date_time", time_local |-> l, time_gmt |-> g] :
        l \in TimesOfDay, g \in TimesOfDay}
    \cup {[fn |-> "pace_or_speed_formatted", type_id |-> t, parent_type_id |-> p,
           mps10 |-> n] : t \in TypeIds, p \in TypeIds, n \in 1..MaxSpeed}
    \cup {[fn |-> "hhmmss_from_seconds", sec |-> sec] : sec \in Durations}

InitFormat ==
    /\ fmt_in \in FormatCalls
    /\ fmt_out = [outcome |-> "none"]
    /\ InitLedgerIdle /\ InitAnnotateIdle /\ InitDetailsIdle /\ InitMultiIdle
    /\ InitMainIdle /\ InitFormatOthers

NextFormat == OffsetDateTimeCall \/ PaceOrSpeedCall \/ HhmmssCall

SpecFormat == InitFormat /\ [][NextFormat]_vars

\* ---- reading a text back ----

IsDigits(text) == \A i \in 1..Len(text) : \E d \in 1..10 : text[i] = DigitChars[d]

RECURSIVE Num(_)
\* the number a text of digits stands for
Num(text) ==
    IF text = <<>> THEN 0
    ELSE 10 * Num(SubSeq(text, 1, Len(text) - 1))
         + (CHOOSE d \in 0..9 : DigitChars[d + 1] = text[Len(text)])

\* the positions of a character in a text
Positions(text, c) == {i \in 1..Len(text) : text[i] = c}

\* v is an integer nearest to p / q
Nearest(v, p, q) ==
    LET diff == IF v * q >= p THEN v * q - p ELSE p - v * q
    IN  2 * diff <= q

\* C27: offset_date_time attaches to the local instant the offset local -
\* GMT in whole minutes, negative when the local time is behind GMT, and
\* the datetime gives it as its UTC offset.
C27_SignedOffset ==
    (fmt_in.fn = "offset_date_time" /\ fmt_out.outcome = "returned") =>
        LET d == fmt_in.time_local - fmt_in.time_gmt
            minutes == IF d >= 0 THEN d \div 60 ELSE 0 - ((0 - d) \div 60)
        IN  /\ fmt_out.value.naive = fmt_in.time_local
            /\ fmt_out.value.tzinfo.offset = minutes
            /\ ~utcoffset(fmt_out.value).raised
            /\ utcoffset(fmt_out.value).minutes = minutes

\* the pace set of the specification
PaceSet == {1, 3, 9, 26}

\* C28: for a positive speed, when the type ID or the parent type ID is in
\* the pace set the result is MM:SS with SS < 60 and MM * 60 + SS the
\* seconds per kilometre (10000 / n for n tenths of a metre per second)
\* rounded to the nearest second; else it is the km/h value (36n / 100)
\* with exactly one decimal.
C28_PaceOrSpeed ==
    (fmt_in.fn = "pace_or_speed_formatted" /\ fmt_out.outcome = "returned") =>
        LET text == fmt_out.value
            n == fmt_in.mps10
        IN  IF fmt_in.type_id \in PaceSet \/ fmt_in.parent_type_id \in PaceSet
            THEN /\ Cardinality(Positions(text, ":")) = 1
                 /\ LET i == CHOOSE k \in Positions(text, ":") : TRUE
                        mm == SubSeq(text, 1, i - 1)
                        ss == SubSeq(text, i + 1, Len(text))
                    IN  /\ Len(mm) >= 2 /\ Len(ss) = 2
                        /\ IsDigits(mm) /\ IsDigits(ss)
                        /\ Num(ss) < 60
                        /\ Nearest(Num(mm) * 60 + Num(ss), 10000, n)
            ELSE /\ Positions(text, ".") = {Len(text) - 1}
                 /\ LET whole == SubSeq(text, 1, Len(text) - 2)
                        tenth == SubSeq(text, Len(text), Len(text))
                    IN  /\ Len(whole) >= 1
                        /\ IsDigits(whole) /\ IsDigits(tenth)
                        /\ Nearest(Num(whole) * 10 + Num(tenth), 36 * n, 10)

\* type 1, parent type 1 and 3.0 m/s give 05:33
C28_Witness ==
    /\ fmt_in.fn = "pace_or_speed_formatted"
    /\ fmt_in.type_id = 1 /\ fmt_in.parent_type_id = 1 /\ fmt_in.mps10 = 30
    /\ fmt_out.outcome = "returned"
    /\ fmt_out.value = <<"0", "5", ":", "3", "3">>

\* C29: for every whole number of seconds x >= 0 the result is the text
\* H:MM:SS (the hours with two digits at least) with MM < 60, SS < 60 and
\* H * 3600 + MM * 60 + SS = x; for a value that is no number it is the
\* placeholder 0.000.
C29_HhmmssCanonical ==
    (fmt_in.fn = "hhmmss_from_seconds" /\ fmt_out.outcome = "returned") =>
        IF fmt_in.sec.kind = "int"
        THEN LET x == fmt_in.sec.x
             IN  fmt_out.value = Pad2(x \div 3600) \o <<":">> \o Pad2((x % 3600) \div 60)
                                 \o <<":">> \o Pad2(x % 60)
        ELSE fmt_out.value = Chars("0.000")

============================================================================
